---- MODULE Spec2Model ----
(***************************************************************************)
(* Earthquake Explorer: the data-acquisition pipeline of App (the newer    *)
(* App.tsx, src/unnamed/part_000).  One mounted App instance ("the         *)
(* scheduler") with its React state, its two interval timers, its fetches  *)
(* in flight and the two localStorage entries of the rate-limit ledger.    *)
(* Times are epoch milliseconds.                                           *)
(***************************************************************************)
EXTENDS Integers, Sequences, FiniteSets, TLC

\* ------------------------------------------------------------------ constants
LIMIT == 10
WINDOW == 60000
COOLDOWN == 120000
COOLDOWN_SECONDS == 120
MS_PER_SECOND == 1000
COUNTDOWN_MS == 1000
FETCH_MS == 10000

\* ------------------------------------------------------------------ bounds
\* the clock stops at MaxTime
MaxTime == 180000
\* at most MaxInflight fetches are awaiting their response at once
MaxInflight == 2
\* the other instance on the same storage runs at most MaxOtherCalls handlers
MaxOtherCalls == 1
\* the lines given to the splitter alone have at most MaxLineLen characters
MaxLineLen == 5
\* the feed's answer to the decoder alone has at most MaxRows data rows
MaxRows == 2
\* the published event set of the derived view alone has at most MaxEvents events
MaxEvents == 2
\* the amounts of time that may pass between two handlers
Deltas == {60000}
\* the same, for the specification with the finer clock
FineDeltas == {30000}
\* the same, for the instance left to itself: the period of fetchInterval, and
\* a period and a half
AutoDeltas == {FETCH_MS, FETCH_MS + FETCH_MS \div 2}
\* the decoded record sets the feed may answer with (record identifiers)
Responses == {<<1>>, <<1, 2>>}

VARIABLES
  now,              \* Date.now()
  historyItem,      \* localStorage['earthquakeRequestHistory']
  cooldownItem,     \* localStorage['earthquakeCooldownEnd']
  phase,            \* "rendered": the component is rendered, its effect yet to run;
                    \* "live": the effect ran (cancelled = false); "torndown": it
                    \* was cleaned up (cancelled = true)
  earthquakeData,   \* useState earthquakeData
  loading,          \* useState loading
  rateLimitReached, \* useState rateLimitReached
  rateLimitResetIn, \* useState rateLimitResetIn
  requestCount,     \* useState requestCount
  countdownDue,     \* when countdownInterval fires next (NoTimer: cleared)
  fetchDue,         \* when fetchInterval fires next (NoTimer: cleared)
  inflight,         \* fetches awaiting their response, in the order they started:
                    \* who started each, and whether its closure is cancelled
  otherPc,          \* another instance on the same storage: where its handler stands
  otherCalls,       \* how many handlers the other instance has started
  last,             \* observer: what the latest step was (a fetch attempt, a
                    \* response) and how it ended
  alone,            \* observer: no Reset Limit and no other instance's write so far
  allowedLog,       \* observer: while alone, the times of the Allowed attempts
                    \* of the trailing window
  magMin,           \* useState magMin, in tenths of a magnitude unit
  line,             \* splitCsv: its argument
  fields,           \* splitCsv: what it returned
  csvText,          \* parseUSGSCsv: its argument
  decoded,          \* parseUSGSCsv: what it returned
  selected,         \* useState selected: the identifier of the selected record
  overtook,         \* observer: the latest step was the successful response of
                    \* the fetch started last, with earlier fetches still in flight
  tabs              \* two instances on the same storage, step by step: where the
                    \* handler of each stands and the history it holds

vars == <<now, historyItem, cooldownItem, phase, earthquakeData, loading,
          rateLimitReached, rateLimitResetIn, requestCount, countdownDue,
          fetchDue, inflight, otherPc, otherCalls, last, alone, allowedLog,
          magMin, line, fields, csvText, decoded, selected, overtook,
          tabs>>

\* the arguments and results of the feed decoder
decoder == <<line, fields, csvText, decoded>>

storage == <<historyItem, cooldownItem>>
published == <<earthquakeData, loading, rateLimitReached, rateLimitResetIn, requestCount>>

\* ------------------------------------------------------------------ helpers
NoTimer == -1
Null == -1
NaN == -2

RECURSIVE SelectSeqBy(_, _, _)
\* Array.prototype.filter with the predicate "now - timestamp < w"
SelectSeqBy(s, t, w) ==
  IF s = <<>> THEN <<>>
  ELSE IF t - Head(s) < w THEN <<Head(s)>> \o SelectSeqBy(Tail(s), t, w)
       ELSE SelectSeqBy(Tail(s), t, w)

\* Math.ceil(a / b) for a >= 0, b > 0
CeilDiv(a, b) == (a + b - 1) \div b

\* a JavaScript number used as a condition: null, NaN and 0 are falsy
Truthy(x) == x > 0

\* the two instances that are followed step by step, and an instance between
\* two handlers
Tabs == {1, 2}
IdleTabs == [i \in Tabs |-> [pc |-> "idle", history |-> <<>>]]

\* ------------------------------------------------------------------ storage
AbsentHistory == [kind |-> "absent", ts |-> <<>>]
AbsentCooldown == [kind |-> "absent", n |-> 0]
\* an entry that is not JSON, or JSON but no array
GarbageHistory == [kind |-> "garbage", ts |-> <<>>]
\* an entry with no leading integer ("abc")
GarbageCooldown == [kind |-> "garbage", n |-> 0]
\* an entry that is no integer but starts with the digits of n ("5abc", "5.5")
PrefixedCooldown(n) == [kind |-> "prefixed", n |-> n]

\* getRequestHistory: absent, unparsable or not an array reads as []
getRequestHistory(item) == IF item.kind = "array" THEN item.ts ELSE <<>>

\* saveRequestHistory: JSON.stringify(timestamps)
saveRequestHistory(timestamps) == [kind |-> "array", ts |-> timestamps]

\* getCooldownEndTime: data ? parseInt(data, 10) : null.  parseInt reads the
\* leading integer of a string ("int": the digits of n; "prefixed": the digits
\* of n followed by other characters) and gives NaN if there is none
getCooldownEndTime(item) ==
  IF item.kind = "absent" THEN Null
  ELSE IF item.kind \in {"int", "prefixed"} THEN item.n
  ELSE NaN

\* saveCooldownEndTime: removeItem for null, else endTime.toString()
saveCooldownEndTime(endTime) ==
  IF endTime = Null THEN AbsentCooldown ELSE [kind |-> "int", n |-> endTime]

\* a cleanOldRequests that keeps only half the window
cleanOldRequestsHalf(history, t) == SelectSeqBy(history, t, WINDOW \div 2)

\* a cleanOldRequests that keeps a timestamp of exactly 60 seconds ago
cleanOldRequestsInclusive(history, t) == SelectSeqBy(history, t, WINDOW + 1)

\* cleanOldRequests: keep the timestamps younger than 60 seconds
cleanOldRequests(history, t) == SelectSeqBy(history, t, WINDOW)

\* ------------------------------------------------------------------ fetchData
\* how a handler at time t finds the stored cooldown: "cooldownEnd && t <
\* cooldownEnd", "cooldownEnd && t >= cooldownEnd", or neither
CooldownStatus(c, t) ==
  LET cooldownEnd == getCooldownEndTime(c) IN
  IF Truthy(cooldownEnd) /\ t < cooldownEnd THEN "active"
  ELSE IF Truthy(cooldownEnd) /\ t >= cooldownEnd THEN "expired"
  ELSE "none"

\* a limiter that never arms the cooldown on the request that fills the window
ArmsNever(newCount) == FALSE

\* "if (newCount >= 10)": the request that fills the window arms the cooldown
ArmsNow(newCount) == newCount >= LIMIT

\* a limiter that records the requests it blocks
BlockedHistoryRecorded(history, t) == Append(history, t)

\* what fetchData stores as the history when it blocks a request at the limit
BlockedHistory(history, t) == history

\* a limiter that blocks a request at the limit without starting a cooldown
BlockedCooldownKept(c, t) == c

\* the cooldown entry fetchData stores when it blocks a request at the limit
BlockedCooldown(c, t) == saveCooldownEndTime(t + COOLDOWN)

\* a check that lets an eleventh request into the window
BlocksAbove(history) == Len(history) > LIMIT

\* line 257, "if (history.length >= 10)": the request is blocked
Blocks(history) == Len(history) >= LIMIT

\* fetchData once no cooldown is active, on the storage entries h and c: it
\* blocks the request at the limit, else records it and lets it through
AdmitOrBlock(h, c, t) ==
  LET history == cleanOldRequests(getRequestHistory(h), t) IN
  IF Blocks(history)
  THEN [outcome |-> "DeniedAtCapacity",
        hist |-> saveRequestHistory(BlockedHistory(history, t)),
        cd |-> BlockedCooldown(c, t),
        reached |-> TRUE, resetIn |-> COOLDOWN_SECONDS,
        count |-> LIMIT, loadingOff |-> TRUE]
  ELSE
    LET pushed == Append(history, t)
        newCount == Len(pushed)
    IN
    IF ArmsNow(newCount)
    THEN [outcome |-> "Allowed", hist |-> saveRequestHistory(pushed),
          cd |-> saveCooldownEndTime(t + COOLDOWN),
          reached |-> TRUE, resetIn |-> COOLDOWN_SECONDS,
          count |-> newCount, loadingOff |-> TRUE]
    ELSE [outcome |-> "Allowed", hist |-> saveRequestHistory(pushed),
          cd |-> c,
          reached |-> FALSE, resetIn |-> 0,
          count |-> newCount, loadingOff |-> FALSE]

\* a limiter that leaves an expired cooldown in storage
ExpiredCooldownKept(c) == c

\* what fetchData leaves of a cooldown entry c it finds expired
ExpiredCooldown(c) == saveCooldownEndTime(Null)

\* a denial that reports the requests of the window as used
DeniedByCooldownCountsWindow(h, c, t) ==
  [outcome |-> "DeniedCooldown", hist |-> h, cd |-> c,
   reached |-> TRUE,
   resetIn |-> CeilDiv(getCooldownEndTime(c) - t, MS_PER_SECOND),
   count |-> Len(cleanOldRequests(getRequestHistory(h), t)), loadingOff |-> TRUE]

\* fetchData in an active cooldown: nothing stored, the denial published with
\* the seconds left and all 10 requests used
DeniedByCooldown(h, c, t) ==
  [outcome |-> "DeniedCooldown", hist |-> h, cd |-> c,
   reached |-> TRUE,
   resetIn |-> CeilDiv(getCooldownEndTime(c) - t, MS_PER_SECOND),
   count |-> LIMIT, loadingOff |-> TRUE]

\* a fetchData that does not look at the stored cooldown
fetchDataNoCooldown(h, c, t) == AdmitOrBlock(h, c, t)

\* The synchronous part of fetchData at time t on the storage entries h and c,
\* for a closure that is not cancelled: what it stores and publishes, and
\* whether it goes on to the network (outcome "Allowed").
fetchData(h, c, t) ==
  IF CooldownStatus(c, t) = "active"
  THEN DeniedByCooldown(h, c, t)
  ELSE IF CooldownStatus(c, t) = "expired"
  THEN AdmitOrBlock(saveRequestHistory(<<>>), ExpiredCooldown(c), t)
  ELSE AdmitOrBlock(h, c, t)

\* who started a fetch: the scheduler itself (startup, timer) or the user
Origin(src) == IF src = "manual" THEN "manual" ELSE "auto"

\* a fetchData that goes on to the network whatever it decided
StartFetchAlways(fs, src, outcome) ==
  Append(fs, [src |-> Origin(src), cancelled |-> FALSE])

\* fetchData reaches "await fetch(...)" only if it has not returned before: the
\* fetches in flight after a call by `src` that ended with `outcome`
StartFetch(fs, src, outcome) ==
  IF outcome = "Allowed"
  THEN Append(fs, [src |-> Origin(src), cancelled |-> FALSE])
  ELSE fs

\* a step that is neither a fetch attempt nor a response
NoAttempt == [src |-> "none", outcome |-> "none", cooldownWas |-> "none"]

\* the observer's log of Allowed attempts, kept to the trailing window
LogAt(t) == SelectSeqBy(allowedLog, t, WINDOW)

\* One call of fetchData by `src` on the storage entries h and c (the caller may
\* have written them in the same handler); `was` is how the handler found the
\* cooldown on entry.
CallFetchData(src, h, c, was) ==
  LET r == fetchData(h, c, now) IN
  /\ r.outcome = "Allowed" => Len(inflight) < MaxInflight
  /\ historyItem' = r.hist
  /\ cooldownItem' = r.cd
  /\ rateLimitReached' = r.reached
  /\ rateLimitResetIn' = r.resetIn
  /\ requestCount' = r.count
  /\ loading' = IF r.loadingOff THEN FALSE ELSE loading
  /\ inflight' = StartFetch(inflight, src, r.outcome)
  /\ last' = [src |-> src, outcome |-> r.outcome, cooldownWas |-> was]
  /\ alone' = alone
  /\ allowedLog' = IF alone /\ r.outcome = "Allowed" THEN Append(LogAt(now), now)
                   ELSE allowedLog

\* ------------------------------------------------------------------ initial state
\* App rendered for the first time on empty storage, its effect yet to run
Init ==
  /\ now = 0
  /\ historyItem = AbsentHistory
  /\ cooldownItem = AbsentCooldown
  /\ phase = "rendered"
  /\ earthquakeData = <<>>
  /\ loading = TRUE
  /\ rateLimitReached = FALSE
  /\ rateLimitResetIn = 0
  /\ requestCount = 0
  /\ countdownDue = NoTimer
  /\ fetchDue = NoTimer
  /\ inflight = <<>>
  /\ otherPc = "idle"
  /\ otherCalls = 0
  /\ last = NoAttempt
  /\ alone = TRUE
  /\ allowedLog = <<>>
  /\ magMin = 0
  /\ line = <<>>
  /\ fields = <<>>
  /\ csvText = <<>>
  /\ decoded = <<>>
  /\ selected = Null
  /\ overtook = FALSE
  /\ tabs = IdleTabs

\* ------------------------------------------------------------------ mount, unmount
live == phase = "live"

\* "cancelled" as the handlers of the latest effect see it
Cancelled == ~live

\* a clean-up that leaves the closures of the fetches in flight uncancelled
CancelNone(fs) == fs

\* every fetch in flight belongs to an effect that is cleaned up now
CancelAll(fs) == [i \in 1..Len(fs) |-> [fs[i] EXCEPT !.cancelled = TRUE]]

\* a clean-up on mount that prunes the stored sequence in a cooldown too
MountHistoryPruned(h, c, t) ==
  saveRequestHistory(cleanOldRequests(getRequestHistory(h), t))

\* "Clean up old localStorage data on mount": the history entry it leaves of h,
\* the cooldown entry being c.  Nothing is cleaned during a cooldown.
MountHistory(h, c, t) ==
  LET was == CooldownStatus(c, t)
      initialHistory == getRequestHistory(h)
      cleanedHistory == cleanOldRequests(initialHistory, t)
  IN
  IF was = "active" THEN h
  ELSE IF was = "expired" THEN saveRequestHistory(<<>>)
  ELSE IF Len(cleanedHistory) # Len(initialHistory)
       THEN saveRequestHistory(cleanedHistory)
       ELSE h

\* The body of useEffect(..., []): the clean-up of stale storage, both timers,
\* and the initial fetch unless a cooldown is active.
Mount ==
  /\ UNCHANGED <<magMin, decoder, selected, tabs>>
  /\ overtook' = FALSE
  /\ phase = "rendered"
  /\ phase' = "live"
  /\ countdownDue' = now + COUNTDOWN_MS
  /\ fetchDue' = now + FETCH_MS
  /\ UNCHANGED <<now, earthquakeData, otherPc, otherCalls>>
  /\ LET cooldownEnd == getCooldownEndTime(cooldownItem)
         was == CooldownStatus(cooldownItem, now)
         h1 == MountHistory(historyItem, cooldownItem, now)
         c1 == IF was = "expired" THEN saveCooldownEndTime(Null) ELSE cooldownItem
         mountCooldownEnd == getCooldownEndTime(c1)
     IN
     IF ~Truthy(mountCooldownEnd) \/ now >= mountCooldownEnd
     THEN CallFetchData("startup", h1, c1, was)
     ELSE /\ historyItem' = h1
          /\ cooldownItem' = c1
          /\ rateLimitReached' = TRUE
          /\ rateLimitResetIn' = CeilDiv(cooldownEnd - now, MS_PER_SECOND)
          /\ requestCount' = LIMIT
          /\ loading' = FALSE
          /\ last' = [src |-> "startup", outcome |-> "Skipped", cooldownWas |-> was]
          /\ UNCHANGED <<inflight, alone, allowedLog>>

\* the effect's clean-up: cancelled = true and both intervals cleared
Unmount ==
  /\ UNCHANGED <<magMin, decoder, selected, tabs>>
  /\ overtook' = FALSE
  /\ live
  /\ phase' = "torndown"
  /\ countdownDue' = NoTimer
  /\ fetchDue' = NoTimer
  /\ inflight' = CancelAll(inflight)
  /\ last' = NoAttempt
  /\ UNCHANGED <<now, historyItem, cooldownItem, earthquakeData, loading,
                 rateLimitReached, rateLimitResetIn, requestCount,
                 otherPc, otherCalls, alone, allowedLog>>

\* App is rendered anew (a reload, a remount): useState's initial values
Render ==
  /\ UNCHANGED <<magMin, decoder, tabs>>
  /\ selected' = Null
  /\ overtook' = FALSE
  /\ phase = "torndown"
  /\ phase' = "rendered"
  /\ earthquakeData' = <<>>
  /\ loading' = TRUE
  /\ rateLimitReached' = FALSE
  /\ rateLimitResetIn' = 0
  /\ requestCount' = 0
  /\ last' = NoAttempt
  /\ UNCHANGED <<now, historyItem, cooldownItem, countdownDue, fetchDue, inflight,
                 otherPc, otherCalls, alone, allowedLog>>

\* a countdown tick that leaves an expired deadline stored
TickCooldownKept(c) == c

\* the countdown tick's "Cooldown just expired" branch: saveCooldownEndTime(null)
TickCooldown(c) == saveCooldownEndTime(Null)

\* a countdown tick that counts the stored timestamps during a cooldown too
TickUsedCountsWindow(history) == Len(history)

\* the countdown tick during a cooldown: setRequestCount(10), whatever is stored
TickUsed(history) == LIMIT

\* ------------------------------------------------------------------ timers
\* A timer runs no earlier than it is due; time does not pass while one is due.
\* countdownInterval's handler
Countdown ==
  /\ UNCHANGED <<magMin, decoder, selected, tabs>>
  /\ overtook' = FALSE
  /\ countdownDue # NoTimer
  /\ now >= countdownDue
  /\ countdownDue' = now + COUNTDOWN_MS
  /\ last' = NoAttempt
  /\ UNCHANGED <<now, phase, earthquakeData, loading, fetchDue, inflight,
                 otherPc, otherCalls, alone, allowedLog>>
  /\ IF Cancelled
     THEN UNCHANGED <<historyItem, cooldownItem, rateLimitReached,
                      rateLimitResetIn, requestCount>>
     ELSE
       LET cooldownEnd == getCooldownEndTime(cooldownItem)
           was == CooldownStatus(cooldownItem, now)
           history == cleanOldRequests(getRequestHistory(historyItem), now)
       IN
       IF was = "active"
       THEN /\ rateLimitResetIn' = CeilDiv(cooldownEnd - now, MS_PER_SECOND)
            /\ requestCount' = TickUsed(history)
            /\ rateLimitReached' = TRUE
            /\ UNCHANGED <<historyItem, cooldownItem>>
       ELSE IF was = "expired"
       THEN /\ cooldownItem' = TickCooldown(cooldownItem)
            /\ historyItem' = saveRequestHistory(<<>>)
            /\ rateLimitReached' = FALSE
            /\ rateLimitResetIn' = 0
            /\ requestCount' = 0
       ELSE /\ historyItem' = saveRequestHistory(history)
            /\ requestCount' = Len(history)
            /\ rateLimitReached' = (Len(history) >= LIMIT)
            /\ rateLimitResetIn' = IF Len(history) >= LIMIT
                                   THEN rateLimitResetIn ELSE 0
            /\ UNCHANGED cooldownItem

\* a fetchInterval handler that always calls fetchData
FetchTimerNeverSkips(h, c, t) == FALSE

\* fetchInterval's handler returns before calling fetchData ("skips") in a
\* cooldown and with 10 requests in the window
FetchTimerSkips(h, c, t) ==
  \/ CooldownStatus(c, t) = "active"
  \/ Len(cleanOldRequests(getRequestHistory(h), t)) >= LIMIT

\* fetchInterval's handler
FetchTimer ==
  /\ UNCHANGED <<magMin, decoder, selected, tabs>>
  /\ overtook' = FALSE
  /\ fetchDue # NoTimer
  /\ now >= fetchDue
  /\ fetchDue' = now + FETCH_MS
  /\ UNCHANGED <<now, phase, earthquakeData, countdownDue, otherPc, otherCalls>>
  /\ IF Cancelled
     THEN /\ last' = NoAttempt
          /\ UNCHANGED <<historyItem, cooldownItem, loading, rateLimitReached,
                         rateLimitResetIn, requestCount, inflight, alone,
                         allowedLog>>
     ELSE IF FetchTimerSkips(historyItem, cooldownItem, now)
     THEN /\ last' = [src |-> "timer", outcome |-> "Skipped",
                      cooldownWas |-> CooldownStatus(cooldownItem, now)]
          /\ UNCHANGED <<historyItem, cooldownItem, loading, rateLimitReached,
                         rateLimitResetIn, requestCount, inflight, alone,
                         allowedLog>>
     ELSE CallFetchData("timer", historyItem, cooldownItem,
                        CooldownStatus(cooldownItem, now))

\* ------------------------------------------------------------------ the user
\* a view that shows the two buttons whenever the effect is live
ControlsAlwaysShown == live

\* The main view, which holds the Refresh Now and Reset Limit buttons, is rendered
\* only when neither the loading screen nor the limit screen is.
MainViewShown == live /\ ~(loading /\ ~rateLimitReached) /\ ~rateLimitReached

\* Refresh Now: manualRefreshRef.current()
ManualRefresh ==
  /\ UNCHANGED <<magMin, decoder, selected, tabs>>
  /\ overtook' = FALSE
  /\ MainViewShown
  /\ UNCHANGED <<now, phase, earthquakeData, countdownDue, fetchDue, otherPc,
                 otherCalls>>
  /\ CallFetchData("manual", historyItem, cooldownItem,
                   CooldownStatus(cooldownItem, now))

\* After the clean-up manualRefreshRef.current still holds the fetchData of the
\* effect that was cleaned up: a call of it returns at "if (cancelled)".
RefreshAfterTeardown ==
  /\ UNCHANGED <<magMin, decoder, selected, tabs>>
  /\ overtook' = FALSE
  /\ phase = "torndown"
  /\ UNCHANGED <<now, phase, earthquakeData, countdownDue, fetchDue, otherPc,
                 otherCalls>>
  /\ IF Cancelled
     THEN /\ last' = [src |-> "manual", outcome |-> "Cancelled",
                      cooldownWas |-> "none"]
          /\ UNCHANGED <<historyItem, cooldownItem, loading, rateLimitReached,
                         rateLimitResetIn, requestCount, inflight, alone,
                         allowedLog>>
     ELSE CallFetchData("manual", historyItem, cooldownItem,
                        CooldownStatus(cooldownItem, now))

\* a Reset Limit that leaves the cooldown entry in storage
RemovedCooldownKept(c) == c

\* localStorage.removeItem('earthquakeCooldownEnd') on the entry c
RemovedCooldown(c) == AbsentCooldown

\* Reset Limit: both entries removed, the status cleared
ResetLimit ==
  /\ UNCHANGED <<magMin, decoder, selected, tabs>>
  /\ overtook' = FALSE
  /\ MainViewShown
  /\ historyItem' = AbsentHistory
  /\ cooldownItem' = RemovedCooldown(cooldownItem)
  /\ rateLimitReached' = FALSE
  /\ rateLimitResetIn' = 0
  /\ requestCount' = 0
  /\ last' = [src |-> "reset", outcome |-> "none",
              cooldownWas |-> CooldownStatus(cooldownItem, now)]
  /\ alone' = FALSE
  /\ allowedLog' = <<>>
  /\ UNCHANGED <<now, phase, earthquakeData, loading, countdownDue, fetchDue,
                 inflight, otherPc, otherCalls>>

\* handleSelect, and the globe's onPointClick: the user picks one of the
\* records on display, which are records of the published event set
handleSelect ==
  \E j \in 1..Len(earthquakeData) :
    /\ MainViewShown
    /\ selected' = earthquakeData[j]
    /\ overtook' = FALSE
    /\ last' = [src |-> "select", outcome |-> "none", cooldownWas |-> "none"]
    /\ UNCHANGED <<now, historyItem, cooldownItem, phase, earthquakeData,
                   loading, rateLimitReached, rateLimitResetIn, requestCount,
                   countdownDue, fetchDue, inflight, otherPc, otherCalls, alone,
                   allowedLog, magMin, decoder, tabs>>

\* ------------------------------------------------------------------ the network
\* s without its i-th element
RemoveAt(s, i) == SubSeq(s, 1, i - 1) \o SubSeq(s, i + 1, Len(s))

\* the i-th fetch in flight is the one started last, and others, started
\* before it, are still awaiting their response
StartedLast(fs, i) == i = Len(fs) /\ Len(fs) > 1

\* the finally block of fetchData, reached by a call that was not cancelled:
\* setLoading(false), whatever the flag was
FinallyLoadingKept(l) == l

FinallyLoading(l) == FALSE

\* A response arrives with res.ok and its text decodes to `parsed`.
FetchSucceeds ==
  \E i \in 1..Len(inflight), parsed \in Responses :
    /\ UNCHANGED <<magMin, decoder, selected, tabs>>
    /\ inflight' = RemoveAt(inflight, i)
    /\ IF inflight[i].cancelled
       THEN /\ last' = [src |-> "response", outcome |-> "Discarded",
                        cooldownWas |-> "none"]
            /\ UNCHANGED <<earthquakeData, loading>>
            /\ overtook' = FALSE
       ELSE /\ last' = [src |-> "response", outcome |-> "Succeeded",
                        cooldownWas |-> "none"]
            /\ earthquakeData' = parsed
            /\ overtook' = StartedLast(inflight, i)
            /\ loading' = FinallyLoading(loading)
    /\ UNCHANGED <<now, historyItem, cooldownItem, phase, rateLimitReached,
                   rateLimitResetIn, requestCount, countdownDue, fetchDue,
                   otherPc, otherCalls, alone, allowedLog>>

\* fetch rejects, or the response is not ok: the catch block
FetchFails ==
  \E i \in 1..Len(inflight) :
    /\ UNCHANGED <<magMin, decoder, selected, tabs>>
    /\ overtook' = FALSE
    /\ inflight' = RemoveAt(inflight, i)
    /\ IF inflight[i].cancelled
       THEN /\ last' = [src |-> "response", outcome |-> "Discarded",
                        cooldownWas |-> "none"]
            /\ UNCHANGED <<earthquakeData, loading>>
       ELSE /\ last' = [src |-> "response", outcome |-> "Failed",
                        cooldownWas |-> "none"]
            /\ earthquakeData' = <<>>
            /\ loading' = FinallyLoading(loading)
    /\ UNCHANGED <<now, historyItem, cooldownItem, phase, rateLimitReached,
                   rateLimitResetIn, requestCount, countdownDue, fetchDue,
                   otherPc, otherCalls, alone, allowedLog>>

\* ------------------------------------------------------------------ the clock
TimerDue ==
  \/ countdownDue # NoTimer /\ now >= countdownDue
  \/ fetchDue # NoTimer /\ now >= fetchDue

\* Time passes between handlers, by one of D, once the timers that are due
\* have run.
AdvanceBy(D) ==
  \E d \in D :
    /\ UNCHANGED <<magMin, decoder, selected, tabs>>
    /\ overtook' = FALSE
    /\ now + d <= MaxTime
    /\ ~TimerDue
    /\ now' = now + d
    /\ allowedLog' = LogAt(now + d)
    /\ alone' = alone
    /\ last' = NoAttempt
    /\ UNCHANGED <<historyItem, cooldownItem, phase, earthquakeData, loading,
                   rateLimitReached, rateLimitResetIn, requestCount, countdownDue,
                   fetchDue, inflight, otherPc, otherCalls>>

Advance == AdvanceBy(Deltas)

AdvanceFine == AdvanceBy(FineDeltas)

AdvanceAuto == AdvanceBy(AutoDeltas)

\* ------------------------------------------------------------------ another instance
\* A second App on the same localStorage (another tab).  Only what it does to
\* the two entries is kept; its handlers may run between any two handlers of
\* this instance, and its Reset Limit handler, two removeItem calls, may be
\* overtaken between the two.
OtherFetchData ==
  /\ UNCHANGED <<magMin, decoder, selected, tabs>>
  /\ overtook' = FALSE
  /\ otherPc = "idle"
  /\ otherCalls < MaxOtherCalls
  /\ otherCalls' = otherCalls + 1
  /\ LET r == fetchData(historyItem, cooldownItem, now) IN
       /\ historyItem' = r.hist
       /\ cooldownItem' = r.cd
  /\ last' = NoAttempt
  /\ alone' = FALSE
  /\ allowedLog' = <<>>
  /\ UNCHANGED <<now, phase, earthquakeData, loading, rateLimitReached,
                 rateLimitResetIn, requestCount, countdownDue, fetchDue, inflight,
                 otherPc>>

OtherResetHistory ==
  /\ UNCHANGED <<magMin, decoder, selected, tabs>>
  /\ overtook' = FALSE
  /\ otherPc = "idle"
  /\ otherCalls < MaxOtherCalls
  /\ otherCalls' = otherCalls + 1
  /\ historyItem' = AbsentHistory
  /\ otherPc' = "reset"
  /\ last' = NoAttempt
  /\ alone' = FALSE
  /\ allowedLog' = <<>>
  /\ UNCHANGED <<now, cooldownItem, phase, earthquakeData, loading,
                 rateLimitReached, rateLimitResetIn, requestCount, countdownDue,
                 fetchDue, inflight>>

OtherResetCooldown ==
  /\ UNCHANGED <<magMin, decoder, selected, tabs>>
  /\ overtook' = FALSE
  /\ otherPc = "reset"
  /\ cooldownItem' = AbsentCooldown
  /\ otherPc' = "idle"
  /\ last' = NoAttempt
  /\ alone' = FALSE
  /\ allowedLog' = <<>>
  /\ UNCHANGED <<now, historyItem, phase, earthquakeData, loading,
                 rateLimitReached, rateLimitResetIn, requestCount, countdownDue,
                 fetchDue, inflight, otherCalls>>

\* ------------------------------------------------------------------ specifications
\* the handlers of this instance, Reset Limit aside
Scheduler ==
  \/ Mount
  \/ Unmount
  \/ Render
  \/ Countdown
  \/ FetchTimer
  \/ ManualRefresh
  \/ RefreshAfterTeardown
  \/ FetchSucceeds
  \/ FetchFails

\* this instance, its user and another instance on the same storage
Next ==
  \/ Scheduler
  \/ ResetLimit
  \/ OtherFetchData
  \/ OtherResetHistory
  \/ OtherResetCooldown
  \/ Advance

Spec == Init /\ [][Next]_vars

\* this instance alone, Reset Limit never pressed, on the finer clock
NextAlone ==
  \/ Scheduler
  \/ AdvanceFine

SpecAlone == Init /\ [][NextAlone]_vars

\* One mounted instance that is never torn down, alone on its storage: the
\* effect runs after the first render, both intervals keep firing, time
\* passes, and every network call is answered in the end.
NextLive ==
  \/ Mount
  \/ Countdown
  \/ FetchTimer
  \/ ManualRefresh
  \/ FetchSucceeds
  \/ FetchFails
  \/ Advance

SpecLive ==
  /\ Init
  /\ [][NextLive]_vars
  /\ WF_vars(Mount)
  /\ WF_vars(Countdown)
  /\ WF_vars(FetchTimer)
  /\ WF_vars(FetchSucceeds \/ FetchFails)
  /\ WF_vars(Advance)

\* one mounted instance and a user who refreshes and selects records
NextSelect ==
  \/ Mount
  \/ Countdown
  \/ FetchTimer
  \/ ManualRefresh
  \/ handleSelect
  \/ FetchSucceeds
  \/ FetchFails
  \/ Advance

SpecSelect == Init /\ [][NextSelect]_vars

\* One mounted instance left to itself: the startup fetch and the two
\* intervals, no user and no other instance.  The clock moves by 10 or 15
\* seconds, so two ticks of fetchInterval are 10 seconds apart or more.
NextAuto ==
  \/ Mount
  \/ Countdown
  \/ FetchTimer
  \/ FetchSucceeds
  \/ FetchFails
  \/ AdvanceAuto

SpecAuto == Init /\ [][NextAuto]_vars

\* ------------------------------------------------------------------ the ledger alone
\* The ledger of fetchData (its checks and what it stores, lines 222-302), called
\* at chosen instants on chosen storage entries, at most once per instant.
\* the instants: 0..10, and those around the deadlines armed at 9 and at 10
LedgerTimes ==
  (0..LIMIT) \cup {LIMIT - 1 + COOLDOWN - 1, LIMIT - 1 + COOLDOWN,
                   LIMIT + COOLDOWN - 1, LIMIT + COOLDOWN, LIMIT + COOLDOWN + 1}

\* the entries the ledger may find in storage at first
LedgerHistories == {AbsentHistory, GarbageHistory, saveRequestHistory(<<0>>)}
LedgerCooldowns ==
  {AbsentCooldown, GarbageCooldown, PrefixedCooldown(LIMIT \div 2),
   saveCooldownEndTime(LIMIT \div 2)}

InitLedger ==
  /\ now = 0
  /\ historyItem \in LedgerHistories
  /\ cooldownItem \in LedgerCooldowns
  /\ phase = "rendered"
  /\ earthquakeData = <<>>
  /\ loading = TRUE
  /\ rateLimitReached = FALSE
  /\ rateLimitResetIn = 0
  /\ requestCount = 0
  /\ countdownDue = NoTimer
  /\ fetchDue = NoTimer
  /\ inflight = <<>>
  /\ otherPc = "idle"
  /\ otherCalls = 0
  /\ last = NoAttempt
  /\ alone = TRUE
  /\ allowedLog = <<>>
  /\ magMin = 0
  /\ line = <<>>
  /\ fields = <<>>
  /\ csvText = <<>>
  /\ decoded = <<>>
  /\ selected = Null
  /\ overtook = FALSE
  /\ tabs = IdleTabs

\* one call of the ledger at the current instant
LedgerAttempt ==
  /\ UNCHANGED <<magMin, decoder, selected, tabs>>
  /\ overtook' = FALSE
  /\ last = NoAttempt
  /\ LET r == fetchData(historyItem, cooldownItem, now) IN
       /\ historyItem' = r.hist
       /\ cooldownItem' = r.cd
       /\ last' = [src |-> "ledger", outcome |-> r.outcome,
                   cooldownWas |-> CooldownStatus(cooldownItem, now)]
  /\ UNCHANGED <<now, phase, earthquakeData, loading, rateLimitReached,
                 rateLimitResetIn, requestCount, countdownDue, fetchDue, inflight,
                 otherPc, otherCalls, alone, allowedLog>>

\* the clock moves on to a later instant
LedgerTick ==
  \E t \in LedgerTimes :
    /\ UNCHANGED <<magMin, decoder, selected, tabs>>
    /\ overtook' = FALSE
    /\ t > now
    /\ now' = t
    /\ last' = NoAttempt
    /\ UNCHANGED <<historyItem, cooldownItem, phase, earthquakeData, loading,
                   rateLimitReached, rateLimitResetIn, requestCount, countdownDue,
                   fetchDue, inflight, otherPc, otherCalls, alone, allowedLog>>

NextLedger ==
  \/ LedgerAttempt
  \/ LedgerTick

SpecLedger == InitLedger /\ [][NextLedger]_vars

\* ------------------------------------------------------------------ two instances, step by step
\* Two Apps on the same localStorage (two tabs), each running the ledger
\* operations of its handlers one localStorage call at a time: fetchData
\* (lines 222-302), the tick of countdownInterval (lines 382-420) and Reset
\* Limit (lines 925-926).  A call of one instance may fall between any two
\* calls of the other.  A handler is synchronous: the clock does not move
\* while one is running.  The clean-up on mount (lines 351-379) makes the
\* calls of a tick, or fewer.
\* k timestamps of the instant t
Stamps(t, k) == [j \in 1..k |-> t]

\* the entries the two instances may find in storage at first
SharedHistories ==
  {AbsentHistory, saveRequestHistory(Stamps(0, LIMIT - 1)),
   saveRequestHistory(Stamps(0, LIMIT))}
SharedCooldowns == {AbsentCooldown, saveCooldownEndTime(WINDOW)}

InitShared ==
  /\ now = 0
  /\ historyItem \in SharedHistories
  /\ cooldownItem \in SharedCooldowns
  /\ phase = "rendered"
  /\ earthquakeData = <<>>
  /\ loading = TRUE
  /\ rateLimitReached = FALSE
  /\ rateLimitResetIn = 0
  /\ requestCount = 0
  /\ countdownDue = NoTimer
  /\ fetchDue = NoTimer
  /\ inflight = <<>>
  /\ otherPc = "idle"
  /\ otherCalls = 0
  /\ last = NoAttempt
  /\ alone = TRUE
  /\ allowedLog = <<>>
  /\ magMin = 0
  /\ line = <<>>
  /\ fields = <<>>
  /\ csvText = <<>>
  /\ decoded = <<>>
  /\ selected = Null
  /\ overtook = FALSE
  /\ tabs = IdleTabs

\* what a step of an instance leaves alone, storage and its own place aside
sharedRest ==
  <<now, phase, earthquakeData, loading, rateLimitReached, rateLimitResetIn,
    requestCount, countdownDue, fetchDue, inflight, otherPc, otherCalls, last,
    alone, allowedLog, magMin, decoder, selected, overtook>>

\* instance i goes on to pc, holding the history h
Goes(i, pc, h) == tabs' = [tabs EXCEPT ![i] = [pc |-> pc, history |-> h]]

\* fetchData, line 228: getCooldownEndTime()
FetchReadsCooldown(i) ==
  /\ tabs[i].pc = "idle"
  /\ LET was == CooldownStatus(cooldownItem, now) IN
     Goes(i, IF was = "active" THEN "idle"
             ELSE IF was = "expired" THEN "fetchClearsCooldown"
             ELSE "fetchReadsHistory", <<>>)
  /\ UNCHANGED <<storage, sharedRest>>

\* fetchData, line 245: saveCooldownEndTime(null)
FetchClearsCooldown(i) ==
  /\ tabs[i].pc = "fetchClearsCooldown"
  /\ cooldownItem' = ExpiredCooldown(cooldownItem)
  /\ Goes(i, "fetchClearsHistory", <<>>)
  /\ UNCHANGED <<historyItem, sharedRest>>

\* fetchData, line 246: saveRequestHistory([])
FetchClearsHistory(i) ==
  /\ tabs[i].pc = "fetchClearsHistory"
  /\ historyItem' = saveRequestHistory(<<>>)
  /\ Goes(i, "fetchReadsHistory", <<>>)
  /\ UNCHANGED <<cooldownItem, sharedRest>>

\* fetchData, lines 250-257: getRequestHistory(), cleanOldRequests, the check
FetchReadsHistory(i) ==
  /\ tabs[i].pc = "fetchReadsHistory"
  /\ LET history == cleanOldRequests(getRequestHistory(historyItem), now) IN
     Goes(i, IF Blocks(history) THEN "fetchBlocksCooldown" ELSE "fetchPushes",
          history)
  /\ UNCHANGED <<storage, sharedRest>>

\* fetchData, line 266: saveCooldownEndTime(cooldownEndTime)
FetchBlocksCooldown(i) ==
  /\ tabs[i].pc = "fetchBlocksCooldown"
  /\ cooldownItem' = BlockedCooldown(cooldownItem, now)
  /\ Goes(i, "fetchBlocksHistory", tabs[i].history)
  /\ UNCHANGED <<historyItem, sharedRest>>

\* fetchData, line 267: saveRequestHistory(history)
FetchBlocksHistory(i) ==
  /\ tabs[i].pc = "fetchBlocksHistory"
  /\ historyItem' = saveRequestHistory(BlockedHistory(tabs[i].history, now))
  /\ Goes(i, "idle", <<>>)
  /\ UNCHANGED <<cooldownItem, sharedRest>>

\* fetchData, lines 276-283: history.push(now), saveRequestHistory(history)
FetchPushes(i) ==
  /\ tabs[i].pc = "fetchPushes"
  /\ LET pushed == Append(tabs[i].history, now) IN
     /\ historyItem' = saveRequestHistory(pushed)
     /\ Goes(i, IF ArmsNow(Len(pushed)) THEN "fetchArms" ELSE "idle", <<>>)
  /\ UNCHANGED <<cooldownItem, sharedRest>>

\* fetchData, line 291: saveCooldownEndTime(cooldownEndTime)
FetchArms(i) ==
  /\ tabs[i].pc = "fetchArms"
  /\ cooldownItem' = saveCooldownEndTime(now + COOLDOWN)
  /\ Goes(i, "idle", <<>>)
  /\ UNCHANGED <<historyItem, sharedRest>>

\* countdownInterval, line 388: getCooldownEndTime()
TickReadsCooldown(i) ==
  /\ tabs[i].pc = "idle"
  /\ LET was == CooldownStatus(cooldownItem, now) IN
     Goes(i, IF was = "active" THEN "idle"
             ELSE IF was = "expired" THEN "tickClearsCooldown"
             ELSE "tickReadsHistory", <<>>)
  /\ UNCHANGED <<storage, sharedRest>>

\* countdownInterval, line 399: saveCooldownEndTime(null)
TickClearsCooldown(i) ==
  /\ tabs[i].pc = "tickClearsCooldown"
  /\ cooldownItem' = TickCooldown(cooldownItem)
  /\ Goes(i, "tickClearsHistory", <<>>)
  /\ UNCHANGED <<historyItem, sharedRest>>

\* countdownInterval, line 400: saveRequestHistory([])
TickClearsHistory(i) ==
  /\ tabs[i].pc = "tickClearsHistory"
  /\ historyItem' = saveRequestHistory(<<>>)
  /\ Goes(i, "idle", <<>>)
  /\ UNCHANGED <<cooldownItem, sharedRest>>

\* countdownInterval, lines 408-409: getRequestHistory(), cleanOldRequests
TickReadsHistory(i) ==
  /\ tabs[i].pc = "tickReadsHistory"
  /\ Goes(i, "tickPrunes", cleanOldRequests(getRequestHistory(historyItem), now))
  /\ UNCHANGED <<storage, sharedRest>>

\* countdownInterval, line 410: saveRequestHistory(history)
TickPrunes(i) ==
  /\ tabs[i].pc = "tickPrunes"
  /\ historyItem' = saveRequestHistory(tabs[i].history)
  /\ Goes(i, "idle", <<>>)
  /\ UNCHANGED <<cooldownItem, sharedRest>>

\* Reset Limit, line 925: removeItem('earthquakeRequestHistory')
ResetRemovesHistory(i) ==
  /\ tabs[i].pc = "idle"
  /\ historyItem' = AbsentHistory
  /\ Goes(i, "resetRemovesCooldown", <<>>)
  /\ UNCHANGED <<cooldownItem, sharedRest>>

\* Reset Limit, line 926: removeItem('earthquakeCooldownEnd')
ResetRemovesCooldown(i) ==
  /\ tabs[i].pc = "resetRemovesCooldown"
  /\ cooldownItem' = RemovedCooldown(cooldownItem)
  /\ Goes(i, "idle", <<>>)
  /\ UNCHANGED <<historyItem, sharedRest>>

\* time passes between handlers
SharedAdvance ==
  \E d \in FineDeltas :
    /\ \A i \in Tabs : tabs[i].pc = "idle"
    /\ now + d <= MaxTime
    /\ now' = now + d
    /\ UNCHANGED <<storage, phase, earthquakeData, loading, rateLimitReached,
                   rateLimitResetIn, requestCount, countdownDue, fetchDue,
                   inflight, otherPc, otherCalls, last, alone, allowedLog,
                   magMin, decoder, selected, overtook, tabs>>

NextShared ==
  \/ \E i \in Tabs : FetchReadsCooldown(i)
  \/ \E i \in Tabs : FetchClearsCooldown(i)
  \/ \E i \in Tabs : FetchClearsHistory(i)
  \/ \E i \in Tabs : FetchReadsHistory(i)
  \/ \E i \in Tabs : FetchBlocksCooldown(i)
  \/ \E i \in Tabs : FetchBlocksHistory(i)
  \/ \E i \in Tabs : FetchPushes(i)
  \/ \E i \in Tabs : FetchArms(i)
  \/ \E i \in Tabs : TickReadsCooldown(i)
  \/ \E i \in Tabs : TickClearsCooldown(i)
  \/ \E i \in Tabs : TickClearsHistory(i)
  \/ \E i \in Tabs : TickReadsHistory(i)
  \/ \E i \in Tabs : TickPrunes(i)
  \/ \E i \in Tabs : ResetRemovesHistory(i)
  \/ \E i \in Tabs : ResetRemovesCooldown(i)
  \/ SharedAdvance

SpecShared == InitShared /\ [][NextShared]_vars

\* ------------------------------------------------------------------ the feed decoder
\* A string is a sequence of characters.  The characters the decoder tells
\* apart are written as themselves; a word ("Tokyo", "5.2", "latitude")
\* stands for a run of other characters, which the decoder only copies,
\* compares or converts as a whole.
Quote == "\""
Comma == ","
Space == " "
Newline == "\n"
Return == "\r"

\* what String.prototype.trim strips from both ends
WhiteSpace == {Space, Newline, Return}

RECURSIVE TrimLeft(_)
TrimLeft(s) ==
  IF s # <<>> /\ Head(s) \in WhiteSpace THEN TrimLeft(Tail(s)) ELSE s

RECURSIVE TrimRight(_)
TrimRight(s) ==
  IF s # <<>> /\ s[Len(s)] \in WhiteSpace
  THEN TrimRight(SubSeq(s, 1, Len(s) - 1)) ELSE s

\* String.prototype.trim
Trim(s) == TrimRight(TrimLeft(s))

\* Array.prototype.map with (s) => s.trim()
TrimAll(ss) == [i \in 1..Len(ss) |-> Trim(ss[i])]

\* a splitter for which a doubled quote is two quote characters
EscapedQuoteToggles(l, i, inQuotes) == FALSE

\* splitCsv, line 41: the quote at i is the first of a doubled quote inside a
\* quoted span (line[i + 1] is undefined past the end)
EscapedQuote(l, i, inQuotes) == inQuotes /\ i + 1 <= Len(l) /\ l[i + 1] = Quote

\* a splitter that splits at every comma
CommaSplitsAlways(ch, inQuotes) == ch = Comma

\* splitCsv, line 47: the character ends the current field
CommaSplits(ch, inQuotes) == ch = Comma /\ ~inQuotes

RECURSIVE ScanCsv(_, _, _, _, _)
\* the loop of splitCsv from index i on (1-based), and the final out.push(cur)
ScanCsv(l, i, cur, inQuotes, out) ==
  IF i > Len(l) THEN Append(out, cur)
  ELSE IF l[i] = Quote
  THEN IF EscapedQuote(l, i, inQuotes)
       THEN ScanCsv(l, i + 2, Append(cur, Quote), inQuotes, out)
       ELSE ScanCsv(l, i + 1, cur, ~inQuotes, out)
  ELSE IF CommaSplits(l[i], inQuotes)
  THEN ScanCsv(l, i + 1, <<>>, inQuotes, Append(out, cur))
  ELSE ScanCsv(l, i + 1, Append(cur, l[i]), inQuotes, out)

splitCsv(l) == TrimAll(ScanCsv(l, 1, <<>>, FALSE, <<>>))

\* ------------------------------------------------------------------ the splitter alone
\* the characters of the lines that are split: the two the splitter acts on,
\* a blank, and "a" for any other character
SplitChars == {Quote, Comma, Space, "a"}

\* every line of at most n characters
LinesUpTo(n) == UNION {[1..k -> SplitChars] : k \in 0..n}

\* a row of the feed with a quoted place (spec.md, the Tokyo scenario), and
\* a row with a quoted cell that holds doubled quotes
ScenarioLines ==
  { <<"abc", Comma, Quote, "Tokyo", Comma, Space, "JP", Quote, Comma, "5.2",
      Comma, "10.0">>,
    <<"abc", Comma, Quote, "He said ", Quote, Quote, "hi", Quote, Quote, Quote,
      Comma, "5.2">> }

InitSplit ==
  /\ now = 0
  /\ historyItem = AbsentHistory
  /\ cooldownItem = AbsentCooldown
  /\ phase = "rendered"
  /\ earthquakeData = <<>>
  /\ loading = TRUE
  /\ rateLimitReached = FALSE
  /\ rateLimitResetIn = 0
  /\ requestCount = 0
  /\ countdownDue = NoTimer
  /\ fetchDue = NoTimer
  /\ inflight = <<>>
  /\ otherPc = "idle"
  /\ otherCalls = 0
  /\ last = NoAttempt
  /\ alone = TRUE
  /\ allowedLog = <<>>
  /\ magMin = 0
  /\ line \in LinesUpTo(MaxLineLen) \cup ScenarioLines
  /\ fields = <<>>
  /\ csvText = <<>>
  /\ decoded = <<>>
  /\ selected = Null
  /\ overtook = FALSE
  /\ tabs = IdleTabs

\* one call of splitCsv
SplitLine ==
  /\ last = NoAttempt
  /\ fields' = splitCsv(line)
  /\ last' = [src |-> "splitCsv", outcome |-> "returned", cooldownWas |-> "none"]
  /\ UNCHANGED <<now, historyItem, cooldownItem, phase, earthquakeData, loading,
                 rateLimitReached, rateLimitResetIn, requestCount, countdownDue,
                 fetchDue, inflight, otherPc, otherCalls, alone, allowedLog,
                 magMin, line, csvText, decoded, selected, overtook,
                 tabs>>

NextSplit == SplitLine

SpecSplit == InitSplit /\ [][NextSplit]_vars

\* ------------------------------------------------------------------ parseUSGSCsv
\* JavaScript values: strings, numbers (kept in tenths, 5.2 is 52; times in
\* milliseconds), NaN, Infinity and undefined.
Str(s) == [kind |-> "string", n |-> 0, s |-> s]
Num(n) == [kind |-> "number", n |-> n, s |-> <<>>]
Undefined == [kind |-> "undefined", n |-> 0, s |-> <<>>]
NotANumber == [kind |-> "NaN", n |-> 0, s |-> <<>>]
Infinite == [kind |-> "Infinity", n |-> 0, s |-> <<>>]

\* the words that are decimal numerals, with their values
NumeralValue ==
  ("5.2" :> 52) @@ ("10.0" :> 100) @@ ("35.6" :> 356) @@ ("139.7" :> 1397)
  @@ ("0" :> 0) @@ ("-0.5" :> -5)

\* the words that are ISO date-times, with their epoch milliseconds
DateValue == ("1970-01-01T00:00:02Z" :> 2000)

\* Number(s) for a string s: blanks around the numeral are ignored, the
\* empty string is 0, "Infinity" and an overflowing numeral are Infinity,
\* anything that is not one numeral is NaN
Number(s) ==
  LET t == Trim(s.s) IN
  IF t = <<>> THEN Num(0)
  ELSE IF Len(t) = 1 /\ t[1] \in DOMAIN NumeralValue THEN Num(NumeralValue[t[1]])
  ELSE IF Len(t) = 1 /\ t[1] \in {"Infinity", "1e999"} THEN Infinite
  ELSE NotANumber

\* Date.parse(s), for the ISO date-times, the empty string and words that
\* are no date in any format
DateParse(s) ==
  IF Len(s.s) = 1 /\ s.s[1] \in DOMAIN DateValue THEN Num(DateValue[s.s[1]])
  ELSE NotANumber

\* a conversion that lets NaN and Infinity through
FiniteOrUndefinedUnchecked(n) == n

\* toNum, line 82: Number.isFinite(n) ? n : undefined
FiniteOrUndefined(n) == IF n.kind = "number" THEN n ELSE Undefined

\* toNum
toNum(s) ==
  IF s = Undefined \/ s = Str(<<>>) THEN Undefined
  ELSE FiniteOrUndefined(Number(s))

\* a || b for a number-or-undefined a: 0, NaN and undefined are falsy
OrNum(a, b) ==
  IF a = Undefined \/ a.kind = "NaN" \/ a = Num(0) THEN b ELSE a

\* a || b for a string-or-undefined a: "" and undefined are falsy
OrStr(a, b) == IF a = Undefined \/ a = Str(<<>>) THEN b ELSE a

\* a ?? b
Nullish(a, b) == IF a = Undefined THEN b ELSE a

\* cols[i] for a 0-based index i; undefined outside the array
At(cols, i) == IF i >= 0 /\ i < Len(cols) THEN Str(cols[i + 1]) ELSE Undefined

\* headers.indexOf(name): the first 0-based position of the name, or -1
indexOf(headers, name) ==
  LET at == {i \in 1..Len(headers) : headers[i] = <<name>>} IN
  IF at = {} THEN -1 ELSE (CHOOSE i \in at : \A j \in at : i <= j) - 1

\* a split that takes a return for the end of a line, too
LineFeedOrReturn(ch) == ch \in {Newline, Return}

\* line 29, /\r?\n/: a line ends at a line feed
LineFeed(ch) == ch = Newline

RECURSIVE SplitLinesFrom(_, _, _, _)
\* csvText.split(/\r?\n/) from index i on: a newline, with the return before
\* it if there is one, ends the current line
SplitLinesFrom(text, i, cur, out) ==
  IF i > Len(text) THEN Append(out, cur)
  ELSE IF LineFeed(text[i])
  THEN SplitLinesFrom(text, i + 1, <<>>,
         Append(out, IF cur # <<>> /\ cur[Len(cur)] = Return
                     THEN SubSeq(cur, 1, Len(cur) - 1) ELSE cur))
  ELSE SplitLinesFrom(text, i + 1, Append(cur, text[i]), out)

\* a filter that keeps the blank lines
NonBlankAny(l) == TRUE

\* line 30: l.trim().length > 0
NonBlank(l) == Trim(l) # <<>>

\* lines 28-30
NonBlankLines(text) == SelectSeq(SplitLinesFrom(text, 1, <<>>, <<>>), NonBlank)

\* an identifier that is always generated
IdentifierFresh(cell, random) == Str(<<random>>)

\* line 90: cols[idI] || `${Math.random()}`
Identifier(cell, random) == OrStr(cell, Str(<<random>>))

\* lines 87-88 and 96
TimeOf(timeVal) ==
  LET parsedTime == OrNum(DateParse(timeVal), OrNum(toNum(timeVal), Num(0))) IN
  IF parsedTime # Undefined THEN parsedTime ELSE Num(0)

\* lines 86-108: the record of one data line
RecordOf(headers, l, random) ==
  LET cols == splitCsv(l)
      idx(name) == indexOf(headers, name)
      timeVal == Nullish(At(cols, idx("time")), Str(<<>>))
  IN [ id |-> Identifier(At(cols, idx("id")), random),
       place |-> OrStr(At(cols, idx("place")), Str(<<"Unknown">>)),
       magnitude |-> Nullish(toNum(At(cols, idx("mag"))), Num(0)),
       depth |-> Nullish(toNum(At(cols, idx("depth"))), Num(0)),
       lat |-> Nullish(toNum(At(cols, idx("latitude"))), Num(0)),
       lng |-> Nullish(toNum(At(cols, idx("longitude"))), Num(0)),
       time |-> TimeOf(timeVal),
       magType |-> IF idx("magType") >= 0
                   THEN OrStr(At(cols, idx("magType")), Undefined) ELSE Undefined,
       type |-> IF idx("type") >= 0
                THEN OrStr(At(cols, idx("type")), Undefined) ELSE Undefined,
       nst |-> toNum(At(cols, idx("nst"))),
       gap |-> toNum(At(cols, idx("gap"))),
       dmin |-> toNum(At(cols, idx("dmin"))),
       rms |-> toNum(At(cols, idx("rms"))),
       horizontalError |-> toNum(At(cols, idx("horizontalError"))),
       depthError |-> toNum(At(cols, idx("depthError"))),
       magError |-> toNum(At(cols, idx("magError"))),
       magNst |-> toNum(At(cols, idx("magNst"))) ]

\* line 109: !Number.isNaN(e.lat) && !Number.isNaN(e.lng)
HasCoordinates(e) == e.lat.kind # "NaN" /\ e.lng.kind # "NaN"

\* parseUSGSCsv; random[i] is what Math.random gives for the i-th data line
parseUSGSCsv(text, random) ==
  LET lines == NonBlankLines(text) IN
  IF Len(lines) < 2 THEN <<>>
  ELSE LET headers == TrimAll(splitCsv(lines[1]))
           rows == [i \in 1..(Len(lines) - 1) |->
                      RecordOf(headers, lines[i + 1], random[i])]
       IN SelectSeq(rows, HasCoordinates)

\* ------------------------------------------------------------------ the decoder alone
RECURSIVE JoinWith(_, _)
\* the strings of ss in a row, sep between any two
JoinWith(ss, sep) ==
  IF ss = <<>> THEN <<>>
  ELSE IF Len(ss) = 1 THEN ss[1]
  ELSE ss[1] \o sep \o JoinWith(Tail(ss), sep)

\* a line of bare cells
Row(cells) == JoinWith([i \in 1..Len(cells) |-> <<cells[i]>>], <<Comma>>)

\* header rows: the feed's, one without id and depth and with an optional
\* column, one without latitude
FeedHeaders ==
  { Row(<<"id", "place", "mag", "depth", "latitude", "longitude", "time">>),
    Row(<<"place", "mag", "latitude", "longitude", "nst">>),
    Row(<<"id", "mag", "longitude">>) }

\* data rows: the Tokyo row of spec.md; a row with empty id, depth and
\* latitude cells and an unparseable magnitude; a row with an unparseable
\* latitude and time; a row that stops after two cells; a row whose numbers
\* are not finite; a row of small numbers
FeedRows ==
  { <<"abc", Comma, Quote, "Tokyo", Comma, Space, "JP", Quote, Comma, "5.2",
      Comma, "10.0", Comma, "35.6", Comma, "139.7", Comma,
      "1970-01-01T00:00:02Z">>,
    <<Comma, "Oslo", Comma, "x", Comma, Comma, Comma, "139.7", Comma,
      "1970-01-01T00:00:02Z">>,
    <<"abc", Comma, "Oslo", Comma, "5.2", Comma, "10.0", Comma, "x", Comma,
      "139.7", Comma, "x">>,
    <<"abc", Comma, "Oslo">>,
    <<"abc", Comma, "Oslo", Comma, "Infinity", Comma, "1e999", Comma, "35.6",
      Comma, "Infinity", Comma>>,
    <<"def", Comma, "Oslo", Comma, "-0.5", Comma, "0", Comma, "0", Comma, "0",
      Comma, "x">> }

\* every sequence of at most n data rows
RowsUpTo(n) == UNION {[1..k -> FeedRows] : k \in 0..n}

\* texts with fewer than two lines that are not blank, and texts with blank
\* lines and a return before the newline
OddTexts ==
  { <<>>, <<Space>>, <<Newline>>, <<Space, Newline, Return, Newline>>,
    <<"id", Comma, "latitude", Newline, Space, Newline>>,
    <<Newline, "latitude", Comma, "longitude", Newline>>,
    <<"latitude", Comma, "longitude", Return, Newline, Newline, "35.6", Comma,
      "139.7", Return, Newline>> }

\* the line endings between the rows of a text: LF, CRLF, a bare CR
LineEndings == {<<Newline>>, <<Return, Newline>>, <<Return>>}

\* what the feed may answer with
FeedTexts ==
  {JoinWith(<<h>> \o rows, sep) :
     h \in FeedHeaders, rows \in RowsUpTo(MaxRows), sep \in LineEndings}
  \cup OddTexts

\* what Math.random may give, as the string of the template literal
RandomIds == {"0.25", "0.75"}

InitDecode ==
  /\ now = 0
  /\ historyItem = AbsentHistory
  /\ cooldownItem = AbsentCooldown
  /\ phase = "rendered"
  /\ earthquakeData = <<>>
  /\ loading = TRUE
  /\ rateLimitReached = FALSE
  /\ rateLimitResetIn = 0
  /\ requestCount = 0
  /\ countdownDue = NoTimer
  /\ fetchDue = NoTimer
  /\ inflight = <<>>
  /\ otherPc = "idle"
  /\ otherCalls = 0
  /\ last = NoAttempt
  /\ alone = TRUE
  /\ allowedLog = <<>>
  /\ magMin = 0
  /\ line = <<>>
  /\ fields = <<>>
  /\ csvText \in FeedTexts
  /\ decoded = <<>>
  /\ selected = Null
  /\ overtook = FALSE
  /\ tabs = IdleTabs

\* one call of parseUSGSCsv on the text; it may be decoded again
Decode ==
  \E random \in [1..MaxRows -> RandomIds] :
    /\ decoded' = parseUSGSCsv(csvText, random)
    /\ last' = [src |-> "parseUSGSCsv", outcome |-> "returned",
                cooldownWas |-> "none"]
    /\ UNCHANGED <<now, historyItem, cooldownItem, phase, earthquakeData,
                   loading, rateLimitReached, rateLimitResetIn, requestCount,
                   countdownDue, fetchDue, inflight, otherPc, otherCalls, alone,
                   allowedLog, magMin, line, fields, csvText, selected,
                   overtook, tabs>>

NextDecode == Decode

SpecDecode == InitDecode /\ [][NextDecode]_vars

\* ------------------------------------------------------------------ derived view state
\* the range of the magnitude slider, in tenths (its step)
SLIDER_MIN == 0
SLIDER_MAX == 80

\* e.magnitude ?? 0, in tenths
MagnitudeOf(e) == Nullish(e.magnitude, Num(0)).n

\* a filter that leaves out the events at the threshold
PassesFilterAbove(e, m) == MagnitudeOf(e) > m

\* line 499: (e.magnitude ?? 0) >= magMin
PassesFilter(e, m) == MagnitudeOf(e) >= m

\* useMemo filteredEarthquakes
filteredEarthquakes ==
  SelectSeq(earthquakeData, LAMBDA e : PassesFilter(e, magMin))

RECURSIVE ReduceMax(_, _)
\* reduce((m, e) => Math.max(m, e.magnitude ?? 0), m) over s, left to right
ReduceMax(s, m) ==
  IF s = <<>> THEN m
  ELSE ReduceMax(Tail(s), IF MagnitudeOf(Head(s)) > m THEN MagnitudeOf(Head(s)) ELSE m)

RECURSIVE ReduceSum(_, _)
\* reduce((s, e) => s + (e.magnitude ?? 0), acc) over s, left to right
ReduceSum(s, acc) ==
  IF s = <<>> THEN acc ELSE ReduceSum(Tail(s), acc + MagnitudeOf(Head(s)))

\* a quotient of two numbers, kept exact
Ratio(a, b) == [num |-> a, den |-> b]

\* a mean that divides by the count whatever it is
MeanOfUnguarded(sum, count) == Ratio(sum, count)

\* lines 506-508: count ? sum / count : 0
MeanOf(sum, count) == IF count # 0 THEN Ratio(sum, count) ELSE Ratio(0, 1)

\* useMemo stats
stats ==
  LET count == Len(filteredEarthquakes)
      maxMag == ReduceMax(filteredEarthquakes, 0)
      sum == ReduceSum(filteredEarthquakes, 0)
  IN [count |-> count, maxMag |-> maxMag, avgMag |-> MeanOf(sum, count)]

\* the magnitudes of the published events, in tenths
EventMagnitudes == {-5, 0, 25, 26, 80, 95}

\* every published event set of at most n events, identified by position
EventSetsUpTo(n) ==
  UNION {{[i \in 1..k |-> [id |-> i, magnitude |-> Num(ms[i])]] :
            ms \in [1..k -> EventMagnitudes]} : k \in 0..n}

\* the instance has been mounted at time 0 and its first fetch has been
\* answered with an event set
InitView ==
  /\ now = 0
  /\ historyItem = saveRequestHistory(<<0>>)
  /\ cooldownItem = AbsentCooldown
  /\ phase = "live"
  /\ earthquakeData \in EventSetsUpTo(MaxEvents)
  /\ loading = FALSE
  /\ rateLimitReached = FALSE
  /\ rateLimitResetIn = 0
  /\ requestCount = 1
  /\ countdownDue = COUNTDOWN_MS
  /\ fetchDue = FETCH_MS
  /\ inflight = <<>>
  /\ otherPc = "idle"
  /\ otherCalls = 0
  /\ last = NoAttempt
  /\ alone = TRUE
  /\ allowedLog = <<0>>
  /\ magMin = SLIDER_MIN
  /\ line = <<>>
  /\ fields = <<>>
  /\ csvText = <<>>
  /\ decoded = <<>>
  /\ selected = Null
  /\ overtook = FALSE
  /\ tabs = IdleTabs

\* the magnitude slider's onChange: setMagMin(parseFloat(e.target.value))
SetMagMin ==
  \E v \in SLIDER_MIN..SLIDER_MAX :
    /\ MainViewShown
    /\ magMin' = v
    /\ last' = [src |-> "slider", outcome |-> "none", cooldownWas |-> "none"]
    /\ UNCHANGED <<now, historyItem, cooldownItem, phase, earthquakeData,
                   loading, rateLimitReached, rateLimitResetIn, requestCount,
                   countdownDue, fetchDue, inflight, otherPc, otherCalls, alone,
                   allowedLog, decoder, selected, overtook, tabs>>

NextView == SetMagMin

SpecView == InitView /\ [][NextView]_vars

\* ------------------------------------------------------------------ properties
\* the steps that are a fetch attempt: at startup, by fetchInterval, by Refresh Now
AttemptSrc == {"startup", "timer", "manual"}

\* the step is a fetch attempt of a closure that is not cancelled
IsAttempt == last'.src \in AttemptSrc /\ last'.outcome # "Cancelled"

\* the attempt was denied: by fetchData, or by its caller before calling it
DeniedOutcome == {"DeniedCooldown", "DeniedAtCapacity", "Skipped"}

\* how many times x occurs in s
Occurrences(s, x) == Cardinality({i \in 1..Len(s) : s[i] = x})

C2_DeniedDuringCooldown ==
  [][(IsAttempt /\ CooldownStatus(cooldownItem, now) = "active") =>
       LET D == getCooldownEndTime(cooldownItem) IN
       /\ last'.outcome \in {"DeniedCooldown", "Skipped"}
       /\ historyItem' = historyItem
       /\ cooldownItem' = cooldownItem
       /\ inflight' = inflight
       /\ last'.src \in {"startup", "manual"} =>
            /\ rateLimitReached'
            /\ (rateLimitResetIn' - 1) * MS_PER_SECOND < D - now
            /\ D - now <= rateLimitResetIn' * MS_PER_SECOND]_vars

\* fetchData itself has denied an attempt for the cooldown, timestamps stored
C2_Witness ==
  /\ last.outcome = "DeniedCooldown"
  /\ CooldownStatus(cooldownItem, now) = "active"
  /\ Len(getRequestHistory(historyItem)) > 0
  /\ rateLimitReached

\* C3: the attempt whose timestamp brings the stored sequence to exactly 10 is
\* Allowed, its fetch starts, and it stores the deadline now + 120,000, so that
\* any attempt before that deadline is denied for the cooldown.
C3_TenthAllowedArmsCooldown ==
  [][(IsAttempt /\ historyItem' # historyItem
        /\ Len(getRequestHistory(historyItem')) = LIMIT
        /\ getRequestHistory(historyItem')[LIMIT] = now) =>
       /\ last'.outcome = "Allowed"
       /\ Len(inflight') = Len(inflight) + 1
       /\ cooldownItem' = [kind |-> "int", n |-> now + COOLDOWN]
       /\ \A t \in {now, now + 1, now + WINDOW, now + COOLDOWN - 1} :
            fetchData(historyItem', cooldownItem', t).outcome = "DeniedCooldown"]_vars

\* the tenth timestamp of the window has just been stored and its fetch started
C3_Witness ==
  /\ last.outcome = "Allowed"
  /\ Len(getRequestHistory(historyItem)) = LIMIT
  /\ getRequestHistory(historyItem)[LIMIT] = now
  /\ cooldownItem = [kind |-> "int", n |-> now + COOLDOWN]
  /\ inflight # <<>>

\* C4: an attempt made while a cooldown deadline D is stored and now >= D first
\* clears the deadline and the sequence and is then Allowed: afterwards the
\* sequence is exactly <<now>> and no cooldown is stored.
C4_ExpiredCooldownCleared ==
  [][(IsAttempt /\ CooldownStatus(cooldownItem, now) = "expired") =>
       /\ last'.outcome = "Allowed"
       /\ Len(inflight') = Len(inflight) + 1
       /\ getRequestHistory(historyItem') = <<now>>
       /\ cooldownItem' = AbsentCooldown
       /\ getCooldownEndTime(cooldownItem') = Null]_vars

\* fetchInterval's attempt has found an expired cooldown and gone through
C4_Witness ==
  /\ last.src = "timer"
  /\ last.cooldownWas = "expired"
  /\ last.outcome = "Allowed"
  /\ getRequestHistory(historyItem) = <<now>>

\* C5: a denied attempt never makes the stored sequence longer, and its time is
\* not added to the sequence.
C5_DeniedLeavesNoTimestamp ==
  [][(IsAttempt /\ last'.outcome \in DeniedOutcome) =>
       /\ Len(getRequestHistory(historyItem')) <= Len(getRequestHistory(historyItem))
       /\ Occurrences(getRequestHistory(historyItem'), now)
            <= Occurrences(getRequestHistory(historyItem), now)]_vars

\* fetchData has blocked an attempt at the limit, no cooldown having been stored
C5_Witness ==
  /\ last.outcome = "DeniedAtCapacity"
  /\ last.cooldownWas = "none"
  /\ Len(getRequestHistory(historyItem)) = LIMIT

\* C6, as claimed: when an allowed fetch fails while records published by an
\* earlier successful fetch are shown, the published event set is left unchanged.
C6_FailureKeepsPublished ==
  [][(last'.src = "response" /\ last'.outcome = "Failed" /\ earthquakeData # <<>>) =>
       earthquakeData' = earthquakeData]_vars

\* C7: a network request is issued only by an attempt that was Allowed, one
\* request for the one timestamp the attempt appends to (what it keeps of) the
\* stored sequence; a denied attempt issues no request and leaves the published
\* event set unchanged.
C7_RequestOnlyWhenAllowed ==
  [][LET h == getRequestHistory(historyItem)
         h2 == getRequestHistory(historyItem')
     IN
     /\ Len(inflight') > Len(inflight) =>
          /\ IsAttempt
          /\ last'.outcome = "Allowed"
          /\ Len(inflight') = Len(inflight) + 1
          /\ \E k \in 0..Len(h) : h2 = Append(SubSeq(h, Len(h) - k + 1, Len(h)), now)
     /\ (IsAttempt /\ last'.outcome = "Allowed") => Len(inflight') = Len(inflight) + 1
     /\ (IsAttempt /\ last'.outcome \in DeniedOutcome) =>
          /\ inflight' = inflight
          /\ earthquakeData' = earthquakeData]_vars

\* records are published and an attempt has just been denied at the limit
C7_Witness ==
  /\ last.outcome \in {"DeniedCooldown", "DeniedAtCapacity"}
  /\ earthquakeData # <<>>
  /\ Len(getRequestHistory(historyItem)) = LIMIT

\* C8: after the clean-up nothing of this instance changes: no timer is armed, a
\* response to a fetch that was in flight at the clean-up (success or failure)
\* changes no published value, also once the component is mounted anew, and a
\* refresh through the old closure changes neither storage nor a published value.
C8_NothingAfterTeardown ==
  [][/\ phase' = "torndown" =>
          /\ countdownDue' = NoTimer
          /\ fetchDue' = NoTimer
     /\ (phase = "torndown" /\ phase' = "torndown") =>
          /\ published' = published
          /\ last'.src # "none" => storage' = storage
     /\ (last'.src = "response" /\ \A i \in 1..Len(inflight) : inflight[i].cancelled) =>
          published' = published]_vars

\* a fetch in flight at the clean-up has resolved after it, the loading flag it
\* would have cleared still set
C8_Witness ==
  /\ phase = "torndown"
  /\ last.src = "response"
  /\ last.outcome = "Discarded"
  /\ loading

\* C9, as claimed: at most one fetch started at startup or by fetchInterval of
\* the live effect is in flight at any time.
C9_OneAutomaticFetchInFlight ==
  Cardinality({i \in 1..Len(inflight) :
                 inflight[i].src = "auto" /\ ~inflight[i].cancelled}) <= 1

\* C10, as claimed: the attempts at startup and at the ticks of fetchInterval
\* leave in storage what fetchData on the stored entries leaves (a cooldown
\* armed when 10 entries are inside the window).
C10_AutomaticAttemptsRunFetchData ==
  [][(IsAttempt /\ last'.src \in {"startup", "timer"}) =>
       LET r == fetchData(historyItem, cooldownItem, now) IN
       /\ historyItem' = r.hist
       /\ cooldownItem' = r.cd]_vars

\* C10, amended: while the effect is live an attempt is made when it starts and
\* at every tick of fetchInterval, which is armed 10 s ahead each time.  The
\* attempt at startup has all the effects of fetchData.  A tick during an active
\* cooldown or with 10 entries inside the window is skipped with no effect at
\* all (no cooldown is armed); any other tick has all the effects of fetchData.
C10_TicksSkipAtLimit ==
  [][LET r == fetchData(historyItem, cooldownItem, now)
         atLimit ==
           \/ CooldownStatus(cooldownItem, now) = "active"
           \/ Len(cleanOldRequests(getRequestHistory(historyItem), now)) >= LIMIT
         asFetchData ==
           /\ historyItem' = r.hist
           /\ cooldownItem' = r.cd
           /\ rateLimitReached' = r.reached
           /\ rateLimitResetIn' = r.resetIn
           /\ requestCount' = r.count
           /\ loading' = (loading /\ ~r.loadingOff)
           /\ Len(inflight') = Len(inflight) + (IF r.outcome = "Allowed" THEN 1 ELSE 0)
     IN
     /\ (phase = "rendered" /\ phase' = "live") =>
          /\ last'.src = "startup"
          /\ fetchDue' = now + FETCH_MS
          /\ asFetchData
     /\ (live /\ live' /\ fetchDue' # fetchDue) =>
          /\ last'.src = "timer"
          /\ now >= fetchDue
          /\ fetchDue' = now + FETCH_MS
          /\ IF atLimit
             THEN /\ last'.outcome = "Skipped"
                  /\ storage' = storage
                  /\ published' = published
                  /\ inflight' = inflight
             ELSE /\ last'.outcome = "Allowed"
                  /\ asFetchData]_vars

\* a tick of fetchInterval has been skipped with 10 entries inside the window
\* and no cooldown stored
C10_Witness ==
  /\ last.src = "timer"
  /\ last.outcome = "Skipped"
  /\ last.cooldownWas = "none"
  /\ cooldownItem = AbsentCooldown
  /\ Len(getRequestHistory(historyItem)) = LIMIT

\* C11, as claimed: Refresh Now can be invoked at any time while the effect is
\* live, in particular while a denial is published.
C11_RefreshAvailableDuringDenial == (live /\ rateLimitReached) => MainViewShown

\* C12, as claimed: an automatic fetch attempt (at startup or by fetchInterval)
\* never adds a timestamp to the stored request history.
C12_AutomaticAddsNoTimestamp ==
  [][(IsAttempt /\ last'.src \in {"startup", "timer"}) =>
       Occurrences(getRequestHistory(historyItem'), now)
         <= Occurrences(getRequestHistory(historyItem), now)]_vars

\* the timestamps 0, 1, ..., k - 1
FirstInstants(k) == [i \in 1..k |-> i - 1]

\* the step is a call of the ledger alone
IsLedgerCall == last'.src = "ledger"

\* C13, as claimed: after the attempts at 0..9 the attempt at 10 returns
\* DeniedAtCapacity and it is this attempt that arms the cooldown, which then
\* lasts until 10 + 120000.
C13_ScenarioEleventhArms ==
  [][(IsLedgerCall /\ now = LIMIT
        /\ getRequestHistory(historyItem) = FirstInstants(LIMIT)) =>
       /\ last'.outcome = "DeniedAtCapacity"
       /\ cooldownItem' = [kind |-> "int", n |-> LIMIT + COOLDOWN]]_vars

\* C13, amended: from empty storage the attempts at 0, 1, ..., 9 are all Allowed
\* and the one at 9 arms the cooldown until 9 + 120000; the attempt at 10 and
\* any later one before 120009 returns DeniedCooldown and changes nothing; an
\* attempt at 120009 or later (130001) is Allowed and leaves the sequence <<now>>
\* and no cooldown.
C13_ScenarioTenthArms ==
  [][IsLedgerCall =>
       /\ \A k \in 0..(LIMIT - 1) :
            (now = k /\ getRequestHistory(historyItem) = FirstInstants(k)
               /\ cooldownItem = AbsentCooldown) =>
              /\ last'.outcome = "Allowed"
              /\ getRequestHistory(historyItem') = FirstInstants(k + 1)
              /\ cooldownItem' = IF k = LIMIT - 1
                                 THEN [kind |-> "int", n |-> k + COOLDOWN]
                                 ELSE AbsentCooldown
       /\ (getRequestHistory(historyItem) = FirstInstants(LIMIT)
             /\ cooldownItem = [kind |-> "int", n |-> LIMIT - 1 + COOLDOWN]) =>
            IF now < LIMIT - 1 + COOLDOWN
            THEN /\ last'.outcome = "DeniedCooldown"
                 /\ storage' = storage
            ELSE /\ last'.outcome = "Allowed"
                 /\ getRequestHistory(historyItem') = <<now>>
                 /\ cooldownItem' = AbsentCooldown]_vars

\* the scenario has come to its eleventh attempt: after those at 0..9, the one
\* at 10 has found the cooldown armed at 9 and been denied for it
C13_Witness ==
  /\ now = LIMIT
  /\ last = [src |-> "ledger", outcome |-> "DeniedCooldown", cooldownWas |-> "active"]
  /\ getRequestHistory(historyItem) = FirstInstants(LIMIT)
  /\ cooldownItem = saveCooldownEndTime(LIMIT - 1 + COOLDOWN)

\* the requests used, as the stored entries h and c have it at time t: all 10
\* during an active cooldown, else the stored timestamps inside the window
UsedAt(h, c, t) ==
  IF CooldownStatus(c, t) = "active" THEN LIMIT
  ELSE Len(cleanOldRequests(getRequestHistory(h), t))

\* C14: whenever the live instance publishes the count of used requests (in
\* fetchData, at a tick of countdownInterval, at Reset Limit, or changing it in
\* any other step) it publishes 10 if a cooldown is then active, whatever the
\* stored timestamps, and else the number of stored timestamps inside the
\* trailing window; the remaining count shown is 10 minus it.
C14_PublishedCountMatchesLedger ==
  [][(live' /\ (\/ requestCount' # requestCount
                \/ IsAttempt /\ ~(last'.src = "timer" /\ last'.outcome = "Skipped")
                \/ live /\ countdownDue' # countdownDue)) =>
       /\ requestCount' = UsedAt(historyItem', cooldownItem', now)
       /\ LIMIT - requestCount' \in 0..LIMIT]_vars

\* a tick of countdownInterval has published 10 of 10 used in a cooldown, the
\* stored timestamps all outside the window
C14_Witness ==
  /\ live
  /\ countdownDue = now + COUNTDOWN_MS
  /\ CooldownStatus(cooldownItem, now) = "active"
  /\ requestCount = LIMIT
  /\ Len(getRequestHistory(historyItem)) = LIMIT
  /\ cleanOldRequests(getRequestHistory(historyItem), now) = <<>>

\* C15: Reset Limit, whatever the storage holds, removes both the stored
\* sequence and the stored deadline and publishes 0 used and no denial; a fetch
\* attempt that comes next is Allowed and leaves a stored sequence of length 1.
C15_ResetClearsLedger ==
  [][last'.src = "reset" =>
       /\ historyItem' = AbsentHistory
       /\ cooldownItem' = AbsentCooldown
       /\ getRequestHistory(historyItem') = <<>>
       /\ getCooldownEndTime(cooldownItem') = Null
       /\ requestCount' = 0
       /\ ~rateLimitReached'
       /\ rateLimitResetIn' = 0
       /\ \A t \in {now, now + 1, now + WINDOW, now + COOLDOWN} :
            LET r == fetchData(historyItem', cooldownItem', t) IN
            /\ r.outcome = "Allowed"
            /\ getRequestHistory(r.hist) = <<t>>
            /\ r.cd = AbsentCooldown]_vars

\* Reset Limit has been pressed while an active cooldown was stored
C15_Witness ==
  /\ last.src = "reset"
  /\ last.cooldownWas = "active"
  /\ historyItem = AbsentHistory
  /\ cooldownItem = AbsentCooldown

\* the stored deadline is no integer
MalformedCooldown(c) == c.kind \in {"garbage", "prefixed"}

\* the stored sequence is not JSON or no array
MalformedHistory(h) == h.kind = "garbage"

\* C16, as claimed: a call of the ledger that finds a malformed deadline decides
\* and stores the sequence as it would with no deadline stored, so that the
\* well-formed sequence is not cleared; one that finds a malformed sequence
\* decides and stores as it would with the empty sequence, the deadline kept
\* as it would be then.
C16_MalformedEntryAsAbsent ==
  [][IsLedgerCall =>
       /\ MalformedCooldown(cooldownItem) =>
            LET r == fetchData(historyItem, AbsentCooldown, now) IN
            /\ last'.outcome = r.outcome
            /\ historyItem' = r.hist
       /\ MalformedHistory(historyItem) =>
            LET r == fetchData(saveRequestHistory(<<>>), cooldownItem, now) IN
            /\ last'.outcome = r.outcome
            /\ historyItem' = r.hist
            /\ cooldownItem' = r.cd]_vars

\* C17: the stored entries survive the clean-up of the effect and a new render;
\* when the effect starts while a stored deadline is in the future, no fetch
\* starts, the stored sequence and deadline stay as they are, and the denial is
\* published with 10 of 10 used and the seconds left.
C17_RestartInCooldown ==
  [][/\ (phase' # phase /\ phase' \in {"torndown", "rendered"}) => storage' = storage
     /\ (phase = "rendered" /\ phase' = "live"
           /\ CooldownStatus(cooldownItem, now) = "active") =>
          /\ inflight' = inflight
          /\ storage' = storage
          /\ rateLimitReached'
          /\ requestCount' = LIMIT
          /\ rateLimitResetIn' * MS_PER_SECOND >= getCooldownEndTime(cooldownItem) - now
          /\ rateLimitResetIn' > 0
          /\ ~loading']_vars

\* the effect has started in a cooldown armed before the restart, the stored
\* timestamps, all outside the window by now, still there
C17_Witness ==
  /\ last.src = "startup"
  /\ last.outcome = "Skipped"
  /\ CooldownStatus(cooldownItem, now) = "active"
  /\ Len(getRequestHistory(historyItem)) = LIMIT
  /\ cleanOldRequests(getRequestHistory(historyItem), now) = <<>>
  /\ inflight = <<>>

\* C18, as claimed: while a denial is published, the records published before
\* stay displayed: the view that shows them is rendered, the denial beside it.
C18_DenialKeepsDataView ==
  (live /\ rateLimitReached /\ ~loading /\ earthquakeData # <<>>) => MainViewShown

\* ------------------------------------------------------------------ C19
\* a step that ends a fetch attempt of the mounted instance: fetchData or the
\* timer's own check denied it, or its network call was answered
FinishesAttempt ==
  \/ last'.src \in AttemptSrc /\ last'.outcome \in DeniedOutcome
  \/ last'.src = "response" /\ last'.outcome \in {"Succeeded", "Failed"}

CountdownTicks == live /\ countdownDue # NoTimer /\ countdownDue' # countdownDue

\* a cooldown is running and the clock of the model reaches its deadline
CooldownWillEnd ==
  /\ live
  /\ CooldownStatus(cooldownItem, now) = "active"
  /\ getCooldownEndTime(cooldownItem) <= MaxTime

HasSplit == last.src = "splitCsv"

\* the number of quote characters of l before position i
QuotesBefore(l, i) == Cardinality({k \in 1..(i - 1) : l[k] = Quote})

\* the positions of the commas of l outside every quoted span: those with
\* an even number of quote characters before them
OuterCommas(l) ==
  {i \in 1..Len(l) : l[i] = Comma /\ QuotesBefore(l, i) % 2 = 0}

\* the j-th smallest member of a set of numbers
NthOf(S, j) == CHOOSE i \in S : Cardinality({x \in S : x <= i}) = j

\* the part of l between its (k-1)-th and its k-th outer comma
Segment(l, k) ==
  LET cs == OuterCommas(l)
      from == IF k = 1 THEN 1 ELSE NthOf(cs, k - 1) + 1
      to == IF k > Cardinality(cs) THEN Len(l) ELSE NthOf(cs, k) - 1
  IN SubSeq(l, from, to)

\* s without its quote characters and its blanks
Letters(s) == SelectSeq(s, LAMBDA ch : ch \notin WhiteSpace \cup {Quote})

\* the commas of s
Commas(s) == SelectSeq(s, LAMBDA ch : ch = Comma)

TokyoLine ==
  <<"abc", Comma, Quote, "Tokyo", Comma, Space, "JP", Quote, Comma, "5.2",
    Comma, "10.0">>

\* C21: splitCsv ends a field at every comma outside a quoted span and at no
\* other character: the fields are as many as those commas plus one, each
\* holds the characters of its own part of the line (quotes and blanks
\* aside), the commas inside quoted spans among them; the row abc,"Tokyo,
\* JP",5.2,10.0 gives the four fields abc / Tokyo, JP / 5.2 / 10.0.
C21_CommaSplitsOutsideQuotesOnly ==
  HasSplit =>
    /\ Len(fields) = Cardinality(OuterCommas(line)) + 1
    /\ \A k \in 1..Len(fields) :
         /\ Letters(fields[k]) = Letters(Segment(line, k))
         /\ Commas(fields[k]) = Commas(Segment(line, k))
    /\ line = TokyoLine =>
         fields = << <<"abc">>, <<"Tokyo", Comma, Space, "JP">>, <<"5.2">>,
                     <<"10.0">> >>

\* the Tokyo row has been split: the place keeps its comma, the magnitude
\* is the third field
C21_Witness ==
  /\ line = TokyoLine
  /\ HasSplit
  /\ Len(fields) = 4
  /\ fields[2] = <<"Tokyo", Comma, Space, "JP">>
  /\ fields[3] = <<"5.2">>

\* ------------------------------------------------------------------ C22
RECURSIVE DoubleQuotes(_)
\* s with every quote character written twice
DoubleQuotes(s) ==
  IF s = <<>> THEN <<>>
  ELSE (IF Head(s) = Quote THEN <<Quote, Quote>> ELSE <<Head(s)>>)
       \o DoubleQuotes(Tail(s))

\* the text c written as one quoted span
Quoted(c) == <<Quote>> \o DoubleQuotes(c) \o <<Quote>>

SaidHiLine ==
  <<"abc", Comma, Quote, "He said ", Quote, Quote, "hi", Quote, Quote, Quote,
    Comma, "5.2">>

\* C22: A line that is one quoted span around the text c, every quote of c
\* written twice, splits to the single field c (trimmed): each doubled quote
\* gives one quote character and does not end the span, a comma after it is
\* still inside, and the enclosing quotes are dropped; the row abc,"He said
\* ""hi""",5.2 gives the three fields abc / He said "hi" / 5.2.
C22_DoubledQuoteIsOneQuote ==
  HasSplit =>
    /\ \A c \in LinesUpTo(MaxLineLen - 2) :
         line = Quoted(c) => fields = <<Trim(c)>>
    /\ line = SaidHiLine =>
         fields = << <<"abc">>, <<"He said ", Quote, "hi", Quote>>, <<"5.2">> >>

\* a quoted span holding a doubled quote and then a comma has been split to
\* one field: a quote and a comma
C22_Witness ==
  /\ HasSplit
  /\ line = <<Quote, Quote, Quote, Comma, Quote>>
  /\ fields = << <<Quote, Comma>> >>

\* ------------------------------------------------------------------ C23
\* parseUSGSCsv has returned
HasDecoded == last.src = "parseUSGSCsv"

\* the header cells of the text and its data rows, for a text of two lines
\* or more that are not blank
HeadersOf(text) == TrimAll(splitCsv(NonBlankLines(text)[1]))
DataRowsOf(text) ==
  LET lines == NonBlankLines(text) IN
  IF Len(lines) < 2 THEN <<>> ELSE Tail(lines)

\* the cell of data row l under the column called name (Undefined: no such
\* column, or the row stops before it)
CellOf(text, l, name) == At(splitCsv(l), indexOf(HeadersOf(text), name))

\* the cell is there, is not empty and is the numeral of a finite number
FiniteCell(cell) ==
  cell # Undefined /\ cell # Str(<<>>) /\ Number(cell).kind = "number"

\* C23: The decoder's output has one record for each data row whose latitude
\* and longitude cells are both there, not empty and finite numerals, and no
\* record for any other data row.
C23_BadCoordinatesDropped ==
  HasDecoded =>
    LET rows == DataRowsOf(csvText) IN
    Len(decoded) =
      Cardinality({i \in 1..Len(rows) :
                     /\ FiniteCell(CellOf(csvText, rows[i], "latitude"))
                     /\ FiniteCell(CellOf(csvText, rows[i], "longitude"))})

\* ------------------------------------------------------------------ C24
\* the lines of the text, counted without splitting it: the parts between
\* its newlines that hold a character other than a blank, a return or a
\* newline
NewlinesOf(text) == {i \in 1..Len(text) : text[i] = Newline}
PartOf(text, k) ==
  LET ns == NewlinesOf(text)
      from == IF k = 1 THEN 1 ELSE NthOf(ns, k - 1) + 1
      to == IF k > Cardinality(ns) THEN Len(text) ELSE NthOf(ns, k) - 1
  IN SubSeq(text, from, to)
NonBlankCount(text) ==
  Cardinality({k \in 1..(Cardinality(NewlinesOf(text)) + 1) :
                 \E i \in 1..Len(PartOf(text, k)) :
                   PartOf(text, k)[i] \notin WhiteSpace})

\* C24: For a text with fewer than 2 lines that are not blank (empty, blank
\* only, or a header row only) the decoder returns the empty sequence.
C24_FewerThanTwoLinesIsEmpty ==
  (HasDecoded /\ NonBlankCount(csvText) < 2) => decoded = <<>>

\* a header row followed by a blank line has been decoded to nothing
C24_Witness ==
  /\ HasDecoded
  /\ csvText = <<"id", Comma, "latitude", Newline, Space, Newline>>
  /\ decoded = <<>>

\* ------------------------------------------------------------------ C25
\* a record without its identifier
SansId(e) == [e EXCEPT !.id = Undefined]

\* the id cell of the i-th data row is empty or not there
IdCellEmpty(text, i) ==
  LET cell == CellOf(text, DataRowsOf(text)[i], "id") IN
  cell = Undefined \/ cell = Str(<<>>)

\* C25: Decoding the same text again gives a sequence of the same length
\* whose records agree with the earlier ones field by field at every
\* position; only the identifier of a row whose id cell is empty may differ,
\* being generated anew.
C25_DecodingRepeats ==
  [][(HasDecoded /\ HasDecoded') =>
       /\ Len(decoded') = Len(decoded)
       /\ \A i \in 1..Len(decoded) :
            /\ SansId(decoded'[i]) = SansId(decoded[i])
            /\ (i <= Len(DataRowsOf(csvText)) /\ ~IdCellEmpty(csvText, i))
                 => decoded'[i].id = decoded[i].id]_vars

\* two rows have been decoded: the first keeps the identifier of its cell,
\* the second, whose id cell is empty, has a generated one
C25_Witness ==
  /\ HasDecoded
  /\ Len(decoded) = 2
  /\ decoded[1].id = Str(<<"abc">>)
  /\ IdCellEmpty(csvText, 2)
  /\ decoded[2].id = Str(<<"0.75">>)

\* ------------------------------------------------------------------ C26
\* the numeric fields of a record: those that are always there, and those
\* that may be absent, with the name of the column each is read from
RequiredNumeric ==
  { <<"magnitude", "mag">>, <<"depth", "depth">>, <<"lat", "latitude">>,
    <<"lng", "longitude">> }
OptionalNumeric ==
  { <<"nst", "nst">>, <<"gap", "gap">>, <<"dmin", "dmin">>, <<"rms", "rms">>,
    <<"horizontalError", "horizontalError">>, <<"depthError", "depthError">>,
    <<"magError", "magError">>, <<"magNst", "magNst">> }

\* C26: In every decoded record each numeric field is a finite number or
\* absent, never NaN or an infinity: an optional numeric field is absent
\* when its column is missing, its cell is empty or is not the numeral of a
\* finite number, and is the cell's number otherwise; magnitude and depth
\* (and the coordinates) are 0 in those cases; the time is a finite number.
C26_NumericFieldsFiniteOrAbsent ==
  HasDecoded =>
    \A i \in 1..Len(decoded) :
      LET e == decoded[i]
          l == DataRowsOf(csvText)[i]
      IN
      /\ e.time.kind = "number"
      /\ \A f \in RequiredNumeric :
           LET cell == CellOf(csvText, l, f[2]) IN
           /\ e[f[1]].kind = "number"
           /\ e[f[1]] = IF FiniteCell(cell) THEN Number(cell) ELSE Num(0)
      /\ \A f \in OptionalNumeric :
           LET cell == CellOf(csvText, l, f[2]) IN
           /\ e[f[1]].kind \in {"number", "undefined"}
           /\ e[f[1]] = IF FiniteCell(cell) THEN Number(cell) ELSE Undefined

\* a row whose magnitude cell is Infinity, whose depth cell overflows and
\* whose station count is not a numeral has been decoded: magnitude and depth
\* are 0, the station count is absent
C26_Witness ==
  /\ HasDecoded
  /\ Len(decoded) >= 1
  /\ CellOf(csvText, DataRowsOf(csvText)[1], "mag") = Str(<<"Infinity">>)
  /\ CellOf(csvText, DataRowsOf(csvText)[1], "depth") = Str(<<"1e999">>)
  /\ decoded[1].magnitude = Num(0)
  /\ decoded[1].depth = Num(0)
  /\ decoded[1].nst = Undefined

\* ------------------------------------------------------------------ C27
\* the positions of the published events at or above the threshold
AtOrAbove == {i \in 1..Len(earthquakeData) :
                earthquakeData[i].magnitude.n >= magMin}

\* C27: The filtered subsequence is made of all and only the published
\* events whose magnitude is at least the chosen threshold, in their
\* original order: its j-th record is the j-th published event at or above
\* the threshold.
C27_FilteredIsThoseAtOrAbove ==
  /\ Len(filteredEarthquakes) = Cardinality(AtOrAbove)
  /\ \A j \in 1..Len(filteredEarthquakes) :
       filteredEarthquakes[j] = earthquakeData[NthOf(AtOrAbove, j)]

\* the slider stands at 2.6 over events of magnitudes 2.5 and 2.6: only the
\* second, exactly at the threshold, is handed on
C27_Witness ==
  /\ last.src = "slider"
  /\ magMin = 26
  /\ Len(earthquakeData) = 2
  /\ earthquakeData[1].magnitude = Num(25)
  /\ earthquakeData[2].magnitude = Num(26)
  /\ filteredEarthquakes = <<earthquakeData[2]>>

\* ------------------------------------------------------------------ C28
\* C28: For every threshold of the slider (0 to 8) and every event set, the
\* count is the length of the filtered subsequence; when that is not empty
\* the max magnitude is the magnitude of one of its records and no record of
\* it has a larger one, and the mean is the sum of its magnitudes over the
\* count; when it is empty the mean is 0.
C28_StatsMatchFiltered ==
  (magMin \in SLIDER_MIN..SLIDER_MAX) =>
    LET f == filteredEarthquakes IN
    /\ stats.count = Len(f)
    /\ f # <<>> =>
         /\ \E j \in 1..Len(f) : f[j].magnitude.n = stats.maxMag
         /\ \A j \in 1..Len(f) : f[j].magnitude.n <= stats.maxMag
         /\ stats.avgMag.den = Len(f)
    /\ f = <<>> => stats.avgMag = Ratio(0, 1)

\* the slider stands at 8.0 over an event of magnitude 2.5 and one below 0:
\* nothing passes, the count is 0 and the mean is 0
C28_Witness ==
  /\ last.src = "slider"
  /\ magMin = SLIDER_MAX
  /\ Len(earthquakeData) = 2
  /\ earthquakeData[1].magnitude = Num(25)
  /\ earthquakeData[2].magnitude = Num(-5)
  /\ filteredEarthquakes = <<>>
  /\ stats.count = 0
  /\ stats.avgMag = Ratio(0, 1)

\* ------------------------------------------------------------------ C29
\* no cooldown is stored and 10 entries or more are inside the window
AtCapacityUnarmed ==
  /\ CooldownStatus(cooldownItem, now) = "none"
  /\ Len(cleanOldRequests(getRequestHistory(historyItem), now)) >= LIMIT

\* C29, as claimed: with no cooldown stored and 10 entries inside the
\* window, every fetch attempt, automatic or manual, is denied, stores the
\* deadline now + 120000 and stores the pruned sequence as it is.
C29_AnyAttemptAtCapacityArms ==
  [][(IsAttempt /\ AtCapacityUnarmed) =>
       /\ last'.outcome \in DeniedOutcome
       /\ cooldownItem' = saveCooldownEndTime(now + COOLDOWN)
       /\ getRequestHistory(historyItem')
            = cleanOldRequests(getRequestHistory(historyItem), now)]_vars

\* C29, amended: with no cooldown stored and 10 entries inside the window,
\* every fetch attempt is denied and starts no fetch; the attempt at startup
\* and a manual one are denied by fetchData, which stores the deadline now +
\* 120000 and the pruned sequence as it is; a tick of the 10-second timer is
\* skipped before fetchData and stores nothing.
C29_AttemptAtCapacityArmsUnlessTick ==
  [][(IsAttempt /\ AtCapacityUnarmed) =>
       /\ last'.outcome \in DeniedOutcome
       /\ inflight' = inflight
       /\ IF last'.src = "timer"
          THEN /\ last'.outcome = "Skipped"
               /\ storage' = storage
          ELSE /\ last'.outcome = "DeniedAtCapacity"
               /\ cooldownItem' = saveCooldownEndTime(now + COOLDOWN)
               /\ getRequestHistory(historyItem')
                    = cleanOldRequests(getRequestHistory(historyItem), now)]_vars

\* the attempt at startup found 10 entries inside the window and no
\* cooldown, and was denied: the deadline is stored, the 10 entries are kept
C29_Witness ==
  /\ last = [src |-> "startup", outcome |-> "DeniedAtCapacity",
             cooldownWas |-> "none"]
  /\ cooldownItem = saveCooldownEndTime(now + COOLDOWN)
  /\ Len(getRequestHistory(historyItem)) = LIMIT
  /\ inflight = <<>>

\* ------------------------------------------------------------------ C30
\* the timestamps of h that are at most `oldest` ms old at time t, in the
\* order they have in h
NoOlderThan(h, t, oldest) ==
  LET K == {i \in 1..Len(h) : t - h[i] <= oldest} IN
  [j \in 1..Cardinality(K) |-> h[NthOf(K, j)]]

\* the step is a countdown tick outside any cooldown: it prunes the stored
\* sequence and stores and counts what is left
PruningTick ==
  /\ CountdownTicks
  /\ live'
  /\ CooldownStatus(cooldownItem, now) = "none"

\* C30, as claimed: pruning removes exactly the timestamps more than 60000
\* ms old and keeps the others in order; one exactly 60000 ms old is kept
\* and counted.
C30_PruningKeepsSixtySecondsOld ==
  [][PruningTick =>
       LET kept == NoOlderThan(getRequestHistory(historyItem), now, WINDOW) IN
       /\ getRequestHistory(historyItem') = kept
       /\ requestCount' = Len(kept)]_vars

\* ------------------------------------------------------------------ C31
\* the deadline left in storage is still ahead at time t
DeadlineAhead(c, t) == CooldownStatus(c, t) = "active"

\* C31, as claimed: after every tick of countdownInterval on the live
\* instance the published status agrees with storage: with a stored deadline
\* D ahead of now it is 10 used, ceil((D - now) / 1000) >= 1 seconds left and
\* the denial active; otherwise the denial is inactive, 0 seconds are left
\* and the used count is the number of stored timestamps inside the window.
C31_TickPublishesStoredStatus ==
  [][(CountdownTicks /\ live') =>
       IF DeadlineAhead(cooldownItem', now)
       THEN /\ requestCount' = LIMIT
            /\ rateLimitResetIn'
                 = CeilDiv(getCooldownEndTime(cooldownItem') - now, MS_PER_SECOND)
            /\ rateLimitResetIn' >= 1
            /\ rateLimitReached'
       ELSE /\ ~rateLimitReached'
            /\ rateLimitResetIn' = 0
            /\ requestCount'
                 = Len(cleanOldRequests(getRequestHistory(historyItem'), now))]_vars

\* C31, amended: as claimed with a stored deadline ahead; otherwise the used
\* count is the number of stored timestamps inside the window, and the
\* denial is inactive with 0 seconds left exactly when that count is below
\* 10: with 10 timestamps inside the window and no deadline the tick
\* publishes the denial as active and leaves the seconds as they were.
C31_TickPublishesStoredStatusOrFullWindow ==
  [][(CountdownTicks /\ live') =>
       IF DeadlineAhead(cooldownItem', now)
       THEN /\ requestCount' = LIMIT
            /\ rateLimitResetIn'
                 = CeilDiv(getCooldownEndTime(cooldownItem') - now, MS_PER_SECOND)
            /\ rateLimitResetIn' >= 1
            /\ rateLimitReached'
       ELSE /\ requestCount'
                 = Len(cleanOldRequests(getRequestHistory(historyItem'), now))
            /\ rateLimitReached' = (requestCount' >= LIMIT)
            /\ rateLimitResetIn'
                 = IF requestCount' >= LIMIT THEN rateLimitResetIn ELSE 0]_vars

\* a tick has found 10 timestamps inside the window and no deadline: it has
\* published the denial as active, with 10 of 10 used
C31_Witness ==
  /\ live
  /\ last = NoAttempt
  /\ countdownDue = now + COUNTDOWN_MS
  /\ cooldownItem = AbsentCooldown
  /\ Len(cleanOldRequests(getRequestHistory(historyItem), now)) = LIMIT
  /\ rateLimitReached
  /\ requestCount = LIMIT

\* ------------------------------------------------------------------ C32
\* the rows of the text, told apart without splitting it: the parts between
\* the characters of E that hold a character other than a blank, a return
\* or a newline, in their order
BreaksOf(text, E) == {i \in 1..Len(text) : text[i] \in E}
PartBetween(text, E, k) ==
  LET bs == BreaksOf(text, E)
      from == IF k = 1 THEN 1 ELSE NthOf(bs, k - 1) + 1
      to == IF k > Cardinality(bs) THEN Len(text) ELSE NthOf(bs, k) - 1
  IN SubSeq(text, from, to)
RowsBetween(text, E) ==
  LET full == {k \in 1..(Cardinality(BreaksOf(text, E)) + 1) :
                 \E i \in 1..Len(PartBetween(text, E, k)) :
                   PartBetween(text, E, k)[i] \notin WhiteSpace}
  IN [j \in 1..Cardinality(full) |-> PartBetween(text, E, NthOf(full, j))]

\* the records are those of the rows that the characters of E end: the
\* first row gives the headers, each later one a record
DecodedRowsEndedBy(E) ==
  LET rows == RowsBetween(csvText, E) IN
  IF Len(rows) < 2 THEN decoded = <<>>
  ELSE /\ Len(decoded) = Len(rows) - 1
       /\ \E random \in [1..Len(decoded) -> RandomIds] :
            \A i \in 1..Len(decoded) :
              decoded[i] = RecordOf(TrimAll(splitCsv(rows[1])), rows[i + 1],
                                    random[i])

\* C32, as claimed: the decoder takes LF, CRLF and a bare CR for the end of a
\* line and discards blank lines: a header and data rows separated in any
\* of these styles decode to the records of those rows.
C32_AnyLineEndingSplits ==
  HasDecoded => DecodedRowsEndedBy({Newline, Return})

\* C32, amended: the decoder takes LF and CRLF for the end of a line and
\* discards blank lines; a bare CR ends no line: it stays inside its line,
\* and a header and data rows separated by bare CRs decode to nothing.
C32_LineFeedSplits ==
  HasDecoded => DecodedRowsEndedBy({Newline})

\* a header and one row, each ended by CRLF with a blank line between, have
\* been decoded to the record of the row
C32_Witness ==
  /\ HasDecoded
  /\ csvText = <<"latitude", Comma, "longitude", Return, Newline, Newline,
                 "35.6", Comma, "139.7", Return, Newline>>
  /\ Len(decoded) = 1
  /\ decoded[1].lat = Num(356)
  /\ decoded[1].lng = Num(1397)

\* ------------------------------------------------------------------ C33
\* C33: The stored timestamp sequence never has more than 10 entries, from a
\* stored sequence of at most 10 entries on, also when two instances share
\* the storage and the localStorage calls of their handlers interleave one
\* by one.
C33_AtMostTenStored == Len(getRequestHistory(historyItem)) <= LIMIT

\* one instance has read 9 timestamps and is about to push its own, while
\* the other has pushed the tenth in between
C33_Witness ==
  /\ tabs[1].pc = "fetchPushes"
  /\ Len(tabs[1].history) = LIMIT - 1
  /\ tabs[2].pc = "fetchArms"
  /\ Len(getRequestHistory(historyItem)) = LIMIT

\* ------------------------------------------------------------------ C34
\* no other instance has touched the storage
SingleInstance == otherCalls = 0 /\ otherPc = "idle"

\* a deadline is stored, passed or not
DeadlineStored == cooldownItem.kind = "int"

\* C34: In a single instance that starts on empty storage, whatever it does
\* (refreshes by hand, Reset Limit, restarts), whenever 10 timestamps are
\* stored a deadline is stored too; so no attempt is ever denied by the
\* at-capacity branch of fetchData.
C34_TenStoredHaveDeadline ==
  /\ []((SingleInstance /\ Len(getRequestHistory(historyItem)) >= LIMIT)
          => DeadlineStored)
  /\ [][(SingleInstance /\ IsAttempt) => last'.outcome # "DeniedAtCapacity"]_vars

\* after a Reset Limit the instance, alone on its storage, has filled the
\* window again: the tenth request has stored the deadline with it
C34_Witness ==
  /\ SingleInstance
  /\ ~alone
  /\ live
  /\ last.outcome = "Allowed"
  /\ Len(getRequestHistory(historyItem)) = LIMIT
  /\ cooldownItem = saveCooldownEndTime(now + COOLDOWN)

\* ------------------------------------------------------------------ C35
\* the most requests that timer ticks 10 seconds apart put inside a window
AutoPeak == WINDOW \div FETCH_MS

OvertakenSucceeds ==
  /\ overtook
  /\ last'.src = "response"
  /\ last'.outcome = "Succeeded"

\* C36: Of two allowed fetches in flight at once that both succeed, the one
\* started last decides the published event set, in whatever order the
\* responses arrive: when the fetch started last is answered first, the
\* answer to the earlier one leaves the published event set as it is.
C36_LastStartedIsPublished ==
  [][OvertakenSucceeds => earthquakeData' = earthquakeData]_vars

\* ------------------------------------------------------------------ C37
\* the identifiers of the published event set
PublishedIds == {earthquakeData[j] : j \in 1..Len(earthquakeData)}

\* C37: At all times the selected record is none or, by its identifier, one
\* of the published event set: a selection whose identifier the latest fetch
\* outcome no longer holds is not kept.
C37_SelectedIsPublished == selected = Null \/ selected \in PublishedIds

\* ------------------------------------------------------------------ C38
\* the step is the handler of Refresh Now or of Reset Limit
ControlUsed ==
  \/ last'.src = "reset"
  \/ last'.src = "manual" /\ last'.outcome # "Cancelled"

====
